---- MODULE Spec2Model ----
(***************************************************************************)
(* A model of views_perf_monitor's RedisBackend: the record log kept in    *)
(* Redis streams, the index sets, the pre-aggregated counters, the result  *)
(* cache and the recording gate.                                           *)
(*                                                                         *)
(* Strings that the code concatenates into keys (routes, tags) are         *)
(* sequences of one-character strings, so that concatenation is \o.        *)
(* An optional value (None or v) is <<>> or <<v>>.                         *)
(* Durations are whole numbers of an arbitrary unit; quotients are kept as *)
(* fractions <<numerator, denominator>>.  Time is counted in ticks, the    *)
(* unit of a stream id.                                                    *)
(***************************************************************************)
EXTENDS Integers, Sequences, FiniteSets, TLC

\* ---------------------------------------------------------------- bounds
MaxSaves == 4           \* save calls in one behaviour of writes only
MaxSavesFetch == 3      \* save calls in one behaviour with reads
MaxSavesConc == 3       \* save calls in one behaviour of concurrent callers
MaxSavesQuery == 3      \* save calls where every kind of query is read
MaxSavesSort == 3       \* save calls where sorted queries are read
MaxQueryFetches == 1    \* fetch calls where every kind of query is read
MaxTime == 2            \* the clock runs from 1 to MaxTime
MaxFetches == 2         \* fetch calls in one behaviour
NodeSize == 2           \* entries in one node of a stream (stream-node-max-entries)
TicksPerHour == 2       \* ticks in one hour of a timestamp
NumWriters == 2         \* concurrent callers of save

\* ------------------------------------------------ configuration of the backend
max_stream_length == 1
cache_ttl_seconds == 1

\* ------------------------------------------------------------ vocabulary
None == <<>>
Some(v) == <<v>>
IsNone(o) == o = <<>>
Val(o) == o[1]

RouteA == <<"/", "a">>
RouteB == <<"/", "b">>
TagX == <<"x">>
TagY == <<"y">>

\* A timestamp is a wall-clock reading (in ticks) with its UTC offset (in ticks).
Ts(wall, off) == [wall |-> wall, off |-> off]

\* The measurements a caller may hand to save (the request_id is added by Rec).
Templates ==
    { [timestamp |-> Ts(2, 0), duration |-> 2, route |-> RouteA, status_code |-> 200,
       method |-> "GET", tags |-> <<>>],
      [timestamp |-> Ts(1, 0), duration |-> 1, route |-> RouteA, status_code |-> 500,
       method |-> "POST", tags |-> <<TagX>>],
      [timestamp |-> Ts(3, 0), duration |-> 3, route |-> RouteA, status_code |-> 200,
       method |-> "GET", tags |-> <<TagY>>],
      [timestamp |-> Ts(0, 0), duration |-> 3, route |-> RouteB, status_code |-> 404,
       method |-> "GET", tags |-> <<TagX, TagY>>] }

\* The measurements saved where reads are interleaved with the writes.
FetchTemplates == {t \in Templates : t.duration = 2 \/ t.route = RouteB}

PerformanceRecord(id, t) ==
    [request_id |-> id, timestamp |-> t.timestamp, duration |-> t.duration,
     route |-> t.route, status_code |-> t.status_code, method |-> t.method,
     tags |-> t.tags]

\* ---------------------------------------------------------- sequences
RECURSIVE SumSeq(_)
SumSeq(s) == IF s = <<>> THEN 0 ELSE Head(s) + SumSeq(Tail(s))

RECURSIVE Flatten(_)
Flatten(ss) == IF ss = <<>> THEN <<>> ELSE Head(ss) \o Flatten(Tail(ss))

Reverse(s) == [i \in 1..Len(s) |-> s[Len(s) + 1 - i]]

Range(s) == {s[i] : i \in 1..Len(s)}

MinOf(S) == CHOOSE m \in S : \A n \in S : m <= n
MaxOf(S) == CHOOSE m \in S : \A n \in S : m >= n

\* ------------------------------------------------------- serialization
\* What save writes into a stream field and what _parse_stream_entries reads
\* back.  A serialized value carries its form; parsing a value of another form
\* fails (the ValueError / KeyError / JSONDecodeError the code suppresses).
isoformat(ts) == <<"iso", ts>>
fromisoformat_ok(s) == Len(s) = 2 /\ s[1] = "iso"
fromisoformat(s) == s[2]

str(n) == <<"str", n>>
number_ok(s) == Len(s) = 2 /\ s[1] = "str"
number(s) == s[2]

json_dumps(v) == <<"json", v>>
json_ok(s) == Len(s) = 2 /\ s[1] = "json"
json_loads(s) == s[2]

\* save, lines 96-104: the field map written to the three streams
Data(record) ==
    [request_id |-> record.request_id,
     timestamp |-> isoformat(record.timestamp),
     duration |-> str(record.duration),
     route |-> record.route,
     status_code |-> str(record.status_code),
     method |-> record.method,
     tags |-> json_dumps(record.tags)]

\* ------------------------------------------------------------ the store
\* One Redis database.  Each field is one key or one family of keys of the
\* code; a family is a function from the part of the key after its prefix to
\* the value, and a key that does not exist is not in the function's domain.
\* A hash is a function from its fields to numbers; a stream is its sequence of
\* nodes, oldest first, each a sequence of entries [id, data].
VARIABLES redis,      \* the database
          now,        \* the server's clock, in ticks
          calls,      \* save calls made so far; the next request_id is calls + 1
          accepted,   \* records written by save since the store was last emptied
          dropped,    \* request_ids of the saves that returned at the gate
          ret,        \* what the last operation did and returned
          fetches,    \* fetch calls made so far
          last_gate,  \* the last call that touched the gate's key
          writer      \* per concurrent caller: the record it is about to write

vars == <<redis, now, calls, accepted, dropped, ret, fetches, last_gate, writer>>

EmptyHash == [f \in {} |-> 0]
EmptyMap == <<>>

EmptyDb ==
    [recording_enabled |-> None,   \* RECORDING_ENABLED_KEY
     stream |-> <<>>,              \* MAIN_STREAM
     tag_stream |-> EmptyMap,      \* TAG_STREAM_PREFIX + tag
     route_stream |-> EmptyMap,    \* ROUTE_STREAM_PREFIX + route
     tags |-> {},                  \* TAG_INDEX_KEY
     routes |-> {},                \* ROUTE_INDEX_KEY
     stats_global |-> EmptyHash,   \* STATS_GLOBAL
     stats_route |-> EmptyMap,     \* STATS_ROUTE_PREFIX + route
     stats_tag |-> EmptyMap,       \* STATS_TAG_PREFIX + tag
     stats_route_tag |-> EmptyMap, \* STATS_ROUTE_TAG_PREFIX + route + ":" + tag
     hourly_counts |-> EmptyHash,  \* HOURLY_COUNTS_HASH
     status_code_counts |-> EmptyHash,  \* STATUS_CODE_COUNTS_HASH
     cache |-> EmptyMap]           \* CACHE_PREFIX + operation + ":" + md5(key string)

\* A key of a family: its value, or what Redis answers for a missing key.
HGetAll(m, k) == IF k \in DOMAIN m THEN m[k] ELSE EmptyHash
XRange(m, k) == IF k \in DOMAIN m THEN m[k] ELSE <<>>
Put(m, k, v) == [x \in DOMAIN m \cup {k} |-> IF x = k THEN v ELSE m[x]]

\* Hash commands.
HGet(h, f) == IF f \in DOMAIN h THEN Some(h[f]) ELSE None
HSet(h, f, v) == [x \in DOMAIN h \cup {f} |-> IF x = f THEN v ELSE h[x]]
HIncrBy(h, f, n) == HSet(h, f, (IF f \in DOMAIN h THEN h[f] ELSE 0) + n)

\* --------------------------------------------------------------- streams
Entries(nodes) == Flatten(nodes)
StreamLen(nodes) == Len(Entries(nodes))

IdLeq(a, b) == a[1] < b[1] \/ (a[1] = b[1] /\ a[2] <= b[2])

\* The id XADD gives a new entry at time t: t-0, or the last id's successor when
\* the clock has not passed it.
NextId(nodes, t) ==
    IF nodes = <<>> THEN <<t, 0>>
    ELSE LET last == Entries(nodes)[StreamLen(nodes)].id
         IN IF t > last[1] THEN <<t, 0>> ELSE <<last[1], last[2] + 1>>

\* The entry goes into the newest node, or into a new node when that one is full.
AppendEntry(nodes, e) ==
    IF nodes = <<>> \/ Len(nodes[Len(nodes)]) >= NodeSize
    THEN nodes \o << <<e>> >>
    ELSE [nodes EXCEPT ![Len(nodes)] = @ \o <<e>>]

\* Trimming that takes whole nodes for as long as the stream is over maxlen.
RECURSIVE TrimGreedy(_, _)
TrimGreedy(nodes, maxlen) ==
    IF nodes # <<>> /\ StreamLen(nodes) > maxlen
    THEN TrimGreedy(Tail(nodes), maxlen)
    ELSE nodes

\* MAXLEN ~ maxlen (approximate=True): the oldest node goes only while the
\* stream keeps at least maxlen entries without it.
RECURSIVE TrimApprox(_, _)
TrimApprox(nodes, maxlen) ==
    IF nodes # <<>> /\ StreamLen(nodes) > maxlen
       /\ StreamLen(nodes) - Len(Head(nodes)) >= maxlen
    THEN TrimApprox(Tail(nodes), maxlen)
    ELSE nodes

\* pipe.xadd(key, data, maxlen=self.max_stream_length, approximate=True)
XAdd(nodes, data, t) ==
    TrimApprox(AppendEntry(nodes, [id |-> NextId(nodes, t), data |-> data]),
               max_stream_length)

\* --------------------------------------------------------- the Lua script
\* The script with its first test lost: the minimum is set once and never lowered.
update_min_max_first_only(h, value) ==
    LET current_min == HGet(h, "min_duration")
        current_max == HGet(h, "max_duration")
        h1 == IF IsNone(current_min) THEN HSet(h, "min_duration", value) ELSE h
    IN IF IsNone(current_max) \/ Val(current_max) < value
       THEN HSet(h1, "max_duration", value) ELSE h1

\* update_min_max_script: KEYS[1] is the hash, ARGV[1] the duration.
update_min_max_script(h, value) ==
    LET current_min == HGet(h, "min_duration")
        current_max == HGet(h, "max_duration")
        h1 == IF IsNone(current_min) \/ Val(current_min) > value
              THEN HSet(h, "min_duration", value) ELSE h
    IN IF IsNone(current_max) \/ Val(current_max) < value
       THEN HSet(h1, "max_duration", value) ELSE h1

\* ----------------------------------------------------- the recording gate
is_recording_enabled(db) ==
    IF IsNone(db.recording_enabled) THEN TRUE
    ELSE Val(db.recording_enabled) \in {"true", "1", "yes"}

\* The flag written in a form is_recording_enabled does not read as true.
enable_recording_on(db) == [db EXCEPT !.recording_enabled = Some("on")]

enable_recording(db) == [db EXCEPT !.recording_enabled = Some("true")]
disable_recording(db) == [db EXCEPT !.recording_enabled = Some("false")]

\* ------------------------------------------------------------------ save
\* Only server errors counted.
is_error_5xx(record) == IF record.status_code >= 500 THEN 1 ELSE 0

is_error(record) == IF record.status_code >= 400 THEN 1 ELSE 0

\* record.timestamp.strftime("%Y-%m-%dT%H:00"): the hour of the wall-clock reading
hour_bucket(record) == record.timestamp.wall \div TicksPerHour

route_tag_key(route, tag) == route \o <<":">> \o tag

\* The route's row without its error count.
RouteRowNoErrors(h, record) ==
    update_min_max_script(
        HIncrBy(HIncrBy(h, "count", 1), "total_duration", record.duration),
        record.duration)

\* The route's row written from the caller's own values instead of incremented.
RouteRowOverwrite(h, record) ==
    update_min_max_script(
        HIncrBy(HSet(HIncrBy(h, "count", 1), "total_duration", record.duration),
                "error_count", is_error(record)),
        record.duration)

\* lines 124-130: the route's counter row
RouteRow(h, record) ==
    update_min_max_script(
        HIncrBy(HIncrBy(HIncrBy(h, "count", 1), "total_duration", record.duration),
                "error_count", is_error(record)),
        record.duration)

\* A tag's row without the extremum script.
TagRowNoExtremum(h, record) ==
    HIncrBy(HIncrBy(h, "count", 1), "total_duration", record.duration)

\* lines 141-144: a tag's counter row
TagRow(h, record) ==
    update_min_max_script(
        HIncrBy(HIncrBy(h, "count", 1), "total_duration", record.duration),
        record.duration)

\* lines 147-149: a route-tag counter row
RouteTagRow(h, record) ==
    HIncrBy(HIncrBy(h, "count", 1), "total_duration", record.duration)

\* lines 134-149: the loop over record.tags, one turn per occurrence of a tag
RECURSIVE TagLoop(_, _, _, _)
TagLoop(db, tags, record, t) ==
    IF tags = <<>> THEN db
    ELSE LET tag == Head(tags)
             k == route_tag_key(record.route, tag)
         IN TagLoop(
              [db EXCEPT
                 !.tag_stream = Put(@, tag, XAdd(XRange(@, tag), Data(record), t)),
                 !.stats_tag = Put(@, tag, TagRow(HGetAll(@, tag), record)),
                 !.stats_route_tag = Put(@, k, RouteTagRow(HGetAll(@, k), record))],
              Tail(tags), record, t)

\* lines 109-159: the commands of the pipeline, executed as one MULTI/EXEC
\* transaction at time t.
Pipeline(db, record, t) ==
    LET d1 == [db EXCEPT
                 !.stream = XAdd(@, Data(record), t),
                 !.hourly_counts = HIncrBy(@, hour_bucket(record), 1),
                 !.status_code_counts = HIncrBy(@, record.status_code, 1),
                 !.stats_global =
                     HIncrBy(HIncrBy(HIncrBy(@, "count", 1),
                                     "total_duration", record.duration),
                             "error_count", is_error(record)),
                 !.stats_route =
                     Put(@, record.route, RouteRow(HGetAll(@, record.route), record))]
        d2 == IF record.tags # <<>>
              THEN TagLoop([d1 EXCEPT !.tags = @ \cup Range(record.tags)],
                           record.tags, record, t)
              ELSE d1
    IN [d2 EXCEPT
          !.routes = @ \cup {record.route},
          !.route_stream =
              Put(@, record.route, XAdd(XRange(@, record.route), Data(record), t))]

\* ----------------------------------------------------------------- queries
\* PerformanceRecordQueryBuilder and its two subclasses: the fields a query
\* carries.  A filter attribute that was never set reads as None (getattr).
QueryBuilder(tag, route) ==
    [tag |-> tag, route |-> route, since |-> None, until |-> None,
     order_by_field |-> None, order_direction |-> "desc", limit_records |-> None,
     route_filter |-> None, tag_filter |-> None, status_code_filter |-> None]

QAll == QueryBuilder(None, None)
for_tag(tag) == QueryBuilder(Some(tag), None)
for_route(route) == QueryBuilder(None, Some(route))
limit(q, n) == [q EXCEPT !.limit_records = n]
for_date_range(q, since, until) == [q EXCEPT !.since = since, !.until = until]
order_by(q, field, direction) ==
    [q EXCEPT !.order_by_field = Some(field),
              !.order_direction = IF direction \in {"asc", "desc"}
                                  THEN direction ELSE "desc"]
filter_by_route(q, route) == [q EXCEPT !.route_filter = Some(route)]
filter_by_tag(q, tag) == [q EXCEPT !.tag_filter = Some(tag)]
filter_by_status_code(q, status_code) ==
    [q EXCEPT !.status_code_filter = Some(status_code)]

\* Python's truth value of an optional string / an optional number
TruthyStr(o) == ~IsNone(o) /\ Val(o) # <<>>
TruthyInt(o) == ~IsNone(o) /\ Val(o) # 0

\* The queries the callers of fetch issue.
Queries == {QAll, for_route(RouteA)}

\* ------------------------------------------------------------------- fetch
\* The instant a timestamp denotes, in ticks since the epoch.
Instant(ts) == ts.wall - ts.off

\* _datetime_to_stream_id
datetime_to_stream_id(dt) == <<Instant(dt), 0>>

\* lines 203-208: the stream a query scans
ScopedStream(db, q) ==
    IF TruthyStr(q.tag) THEN XRange(db.tag_stream, Val(q.tag))
    ELSE IF TruthyStr(q.route) THEN XRange(db.route_stream, Val(q.route))
    ELSE db.stream

FirstN(s, n) == IF Len(s) <= n THEN s ELSE SubSeq(s, 1, n)

\* XREVRANGE key max min COUNT count: newest first; a bound of None is + or -.
XRevRange(nodes, max_id, min_id, count) ==
    LET inRange(e) == /\ (IsNone(min_id) \/ IdLeq(Val(min_id), e.id))
                      /\ (IsNone(max_id) \/ IdLeq(e.id, Val(max_id)))
        hits == Reverse(SelectSeq(Entries(nodes), inRange))
    IN IF IsNone(count) THEN hits ELSE FirstN(hits, Val(count))

\* _parse_stream_entries: an entry whose fields do not parse is skipped
ParseOk(data) ==
    /\ {"request_id", "timestamp", "duration", "route", "status_code", "method",
        "tags"} \subseteq DOMAIN data
    /\ fromisoformat_ok(data.timestamp)
    /\ number_ok(data.duration)
    /\ number_ok(data.status_code)
    /\ json_ok(data.tags)

\* The duration read from the wrong field.
ParseEntrySwapped(data) ==
    [request_id |-> data.request_id,
     timestamp |-> fromisoformat(data.timestamp),
     duration |-> number(data.status_code),
     route |-> data.route,
     status_code |-> number(data.status_code),
     method |-> data.method,
     tags |-> json_loads(data.tags)]

ParseEntry(data) ==
    [request_id |-> data.request_id,
     timestamp |-> fromisoformat(data.timestamp),
     duration |-> number(data.duration),
     route |-> data.route,
     status_code |-> number(data.status_code),
     method |-> data.method,
     tags |-> json_loads(data.tags)]

\* The scan given up at the first entry that does not parse.
RECURSIVE parse_stream_entries_abort(_)
parse_stream_entries_abort(entries) ==
    IF entries = <<>> \/ ~ParseOk(Head(entries).data) THEN <<>>
    ELSE <<ParseEntry(Head(entries).data)>>
         \o parse_stream_entries_abort(Tail(entries))

RECURSIVE parse_stream_entries(_)
parse_stream_entries(entries) ==
    IF entries = <<>> THEN <<>>
    ELSE (IF ParseOk(Head(entries).data)
          THEN <<ParseEntry(Head(entries).data)>> ELSE <<>>)
         \o parse_stream_entries(Tail(entries))

\* lines 221-228: the secondary filters
ApplyFilters(records, q) ==
    LET byRoute(r) == ~TruthyStr(q.route_filter) \/ r.route = Val(q.route_filter)
        byTag(r) == ~TruthyStr(q.tag_filter) \/ Val(q.tag_filter) \in Range(r.tags)
        byStatus(r) == \/ ~TruthyInt(q.status_code_filter)
                       \/ r.status_code = Val(q.status_code_filter)
    IN SelectSeq(SelectSeq(SelectSeq(records, byRoute), byTag), byStatus)

\* The order of the characters and of the method names that sorted() compares.
CharRank(c) == CHOOSE i \in 1..6 : <<"/", ":", "a", "b", "x", "y">>[i] = c
MethodRank(m) == CHOOSE i \in 1..2 : <<"GET", "POST">>[i] = m

RECURSIVE StrLess(_, _)
StrLess(a, b) ==
    IF b = <<>> THEN FALSE
    ELSE IF a = <<>> THEN TRUE
    ELSE IF Head(a) # Head(b) THEN CharRank(Head(a)) < CharRank(Head(b))
    ELSE StrLess(Tail(a), Tail(b))

RecordFields == {"request_id", "timestamp", "duration", "route", "status_code",
                 "method", "tags"}

\* key(a) < key(b) for the key getattr(r, field)
KeyLess(field, a, b) ==
    CASE field = "timestamp" -> Instant(a.timestamp) < Instant(b.timestamp)
      [] field = "duration" -> a.duration < b.duration
      [] field = "status_code" -> a.status_code < b.status_code
      [] field = "request_id" -> a.request_id < b.request_id
      [] field = "route" -> StrLess(a.route, b.route)
      [] field = "method" -> MethodRank(a.method) < MethodRank(b.method)
      [] OTHER -> FALSE

\* sorted(records, key=..., reverse=reverse): stable; reverse keeps the order of
\* equal keys too.
RECURSIVE InsertSorted(_, _, _, _)
InsertSorted(sorted, r, field, reverse) ==
    IF sorted = <<>> THEN <<r>>
    ELSE LET h == Head(sorted)
             before == IF reverse THEN KeyLess(field, h, r) ELSE KeyLess(field, r, h)
         IN IF before THEN <<r>> \o sorted
            ELSE <<h>> \o InsertSorted(Tail(sorted), r, field, reverse)

\* A descending sort made by reversing the ascending one.
RECURSIVE SortAscending(_, _)
SortAscending(records, field) ==
    IF records = <<>> THEN <<>>
    ELSE InsertSorted(SortAscending(SubSeq(records, 1, Len(records) - 1), field),
                      records[Len(records)], field, FALSE)

SortedThenReversed(records, field, reverse) ==
    IF reverse THEN Reverse(SortAscending(records, field))
    ELSE SortAscending(records, field)

RECURSIVE SortedBy(_, _, _)
SortedBy(records, field, reverse) ==
    IF records = <<>> THEN <<>>
    ELSE InsertSorted(SortedBy(SubSeq(records, 1, Len(records) - 1), field, reverse),
                      records[Len(records)], field, reverse)

\* --------------------------------------------------------------- the cache
Digit(n) == <<"0", "1", "2", "3", "4", "5", "6", "7", "8", "9">>[n + 1]
RECURSIVE StrOfNat(_)
StrOfNat(n) == IF n < 10 THEN <<Digit(n)>> ELSE StrOfNat(n \div 10) \o <<Digit(n % 10)>>
IsoOfTs(ts) == <<"T">> \o StrOfNat(ts.wall) \o <<"+">> \o StrOfNat(ts.off)

RECURSIVE Join(_, _)
Join(parts, sep) ==
    IF Len(parts) = 0 THEN <<>>
    ELSE IF Len(parts) = 1 THEN parts[1]
    ELSE parts[1] \o sep \o Join(Tail(parts), sep)

OrEmpty(o) == IF IsNone(o) THEN <<>> ELSE Val(o)

\* _get_cache_key: the key string that is hashed (md5 is taken to be free of
\* collisions, so the key is the string itself)
get_cache_key(operation, q) ==
    Join(<< <<operation>>,
            OrEmpty(q.tag),
            OrEmpty(q.route),
            IF IsNone(q.since) THEN <<>> ELSE IsoOfTs(Val(q.since)),
            IF IsNone(q.until) THEN <<>> ELSE IsoOfTs(Val(q.until)),
            IF IsNone(q.order_by_field) THEN <<>> ELSE <<Val(q.order_by_field)>>,
            IF q.order_direction = "" THEN <<>> ELSE <<q.order_direction>>,
            IF TruthyInt(q.limit_records) THEN StrOfNat(Val(q.limit_records)) ELSE <<>>,
            OrEmpty(q.route_filter),
            OrEmpty(q.tag_filter),
            IF TruthyInt(q.status_code_filter)
            THEN StrOfNat(Val(q.status_code_filter)) ELSE <<>> >>,
         <<"|">>)

\* PerformanceRecord.model_dump and from_dict
model_dump(r) == [r EXCEPT !.timestamp = isoformat(r.timestamp)]
from_dict_ok(item) == fromisoformat_ok(item.timestamp)
from_dict(item) == [item EXCEPT !.timestamp = fromisoformat(item.timestamp)]

RECURSIVE from_dict_list(_)
from_dict_list(data) ==
    IF data = <<>> THEN <<>>
    ELSE (IF from_dict_ok(Head(data)) THEN <<from_dict(Head(data))>> ELSE <<>>)
         \o from_dict_list(Tail(data))

DumpList(records) == [i \in 1..Len(records) |-> model_dump(records[i])]

\* GET of a cache key at time t: None when missing or expired
CacheGet(db, key, t) ==
    IF key \in DOMAIN db.cache /\ db.cache[key].expires > t
    THEN Some(db.cache[key].value) ELSE None

\* _get_cached_records: None on a miss or when the value is not JSON
get_cached_records(db, key, t) ==
    LET cached == CacheGet(db, key, t)
    IN IF IsNone(cached) THEN None
       ELSE IF ~json_ok(Val(cached)) THEN None
       ELSE Some(from_dict_list(json_loads(Val(cached))))

\* An entry stored for one second more than cache_ttl_seconds.
cache_result_late(db, key, data, t) ==
    [db EXCEPT !.cache = Put(@, key, [value |-> json_dumps(data),
                                      expires |-> t + cache_ttl_seconds + 1])]

\* _cache_result: SETEX key cache_ttl_seconds json.dumps(data)
cache_result(db, key, data, t) ==
    [db EXCEPT !.cache = Put(@, key, [value |-> json_dumps(data),
                                      expires |-> t + cache_ttl_seconds])]

\* lines 203-234: what fetch computes on a cache miss
FetchFresh(db, q) ==
    LET min_id == IF IsNone(q.since) THEN None
                  ELSE Some(datetime_to_stream_id(Val(q.since)))
        max_id == IF IsNone(q.until) THEN None
                  ELSE Some(datetime_to_stream_id(Val(q.until)))
        stream_entries == XRevRange(ScopedStream(db, q), max_id, min_id, q.limit_records)
        records == ApplyFilters(parse_stream_entries(stream_entries), q)
    IN IF ~IsNone(q.order_by_field)
       THEN SortedBy(records, Val(q.order_by_field), q.order_direction = "desc")
       ELSE records

\* What fetch has in hand at line 230, before it sorts.
Unsorted(db, q) == FetchFresh(db, [q EXCEPT !.order_by_field = None])

\* fetch raises instead of returning: redis-py refuses an XREVRANGE count that
\* is not a positive integer (DataError, line 213), and getattr(r, order_by)
\* raises AttributeError for a name that is no field of the record as soon as
\* sorted() has a record to take the key of (line 233).
FetchRaises(db, q) ==
    \/ ~IsNone(q.limit_records) /\ Val(q.limit_records) < 1
    \/ /\ ~IsNone(q.order_by_field)
       /\ Val(q.order_by_field) \notin RecordFields
       /\ Unsorted(db, q) # <<>>

\* ------------------------------------------------------------- operations
NoRet == [op |-> "none", q |-> QAll, hit |-> FALSE, value |-> <<>>]
Writers == 1..NumWriters

Init ==
    /\ redis = EmptyDb
    /\ now = 1
    /\ calls = 0
    /\ accepted = <<>>
    /\ dropped = {}
    /\ ret = NoRet
    /\ fetches = 0
    /\ last_gate = "none"
    /\ writer = [w \in Writers |-> <<>>]

\* save without the return at the closed gate: the record is written all the same.
SaveNoReturn(t, max) ==
    /\ calls < max
    /\ calls' = calls + 1
    /\ LET record == PerformanceRecord(calls + 1, t)
       IN /\ redis' = Pipeline(redis, record, now)
          /\ IF ~is_recording_enabled(redis)
             THEN /\ dropped' = dropped \cup {record.request_id}
                  /\ UNCHANGED accepted
             ELSE /\ accepted' = Append(accepted, record)
                  /\ UNCHANGED dropped
    /\ ret' = NoRet
    /\ UNCHANGED <<now, fetches, last_gate, writer>>

\* save that afterwards sets the route's count back to the length of its log.
SaveRecount(t, max) ==
    /\ calls < max
    /\ calls' = calls + 1
    /\ LET record == PerformanceRecord(calls + 1, t)
           d == Pipeline(redis, record, now)
       IN IF ~is_recording_enabled(redis)
          THEN /\ dropped' = dropped \cup {record.request_id}
               /\ UNCHANGED <<redis, accepted>>
          ELSE /\ redis' = [d EXCEPT !.stats_route[record.route] =
                               HSet(@, "count",
                                    StreamLen(d.route_stream[record.route]))]
               /\ accepted' = Append(accepted, record)
               /\ UNCHANGED dropped
    /\ ret' = NoRet
    /\ UNCHANGED <<now, fetches, last_gate, writer>>

\* save that afterwards keeps in the route index only the routes still in the log.
SavePruneIndex(t, max) ==
    /\ calls < max
    /\ calls' = calls + 1
    /\ LET record == PerformanceRecord(calls + 1, t)
           d == Pipeline(redis, record, now)
       IN IF ~is_recording_enabled(redis)
          THEN /\ dropped' = dropped \cup {record.request_id}
               /\ UNCHANGED <<redis, accepted>>
          ELSE /\ redis' = [d EXCEPT !.routes =
                               {e.data.route : e \in Range(Entries(d.stream))}]
               /\ accepted' = Append(accepted, record)
               /\ UNCHANGED dropped
    /\ ret' = NoRet
    /\ UNCHANGED <<now, fetches, last_gate, writer>>

\* save(record), the whole call by a single caller
Save(t, max) ==
    /\ calls < max
    /\ calls' = calls + 1
    /\ LET record == PerformanceRecord(calls + 1, t)
       IN IF ~is_recording_enabled(redis)
          THEN /\ dropped' = dropped \cup {record.request_id}
               /\ UNCHANGED <<redis, accepted>>
          ELSE /\ redis' = Pipeline(redis, record, now)
               /\ accepted' = Append(accepted, record)
               /\ UNCHANGED dropped
    /\ ret' = NoRet
    /\ UNCHANGED <<now, fetches, last_gate, writer>>

\* save by one of several concurrent callers: first the read of the gate ...
SaveBegin(w, t) ==
    /\ writer[w] = <<>>
    /\ calls < MaxSavesConc
    /\ calls' = calls + 1
    /\ LET record == PerformanceRecord(calls + 1, t)
       IN IF ~is_recording_enabled(redis)
          THEN /\ dropped' = dropped \cup {record.request_id}
               /\ UNCHANGED writer
          ELSE /\ writer' = [writer EXCEPT ![w] = <<record>>]
               /\ UNCHANGED dropped
    /\ ret' = NoRet
    /\ UNCHANGED <<redis, now, accepted, fetches, last_gate>>

\* ... then pipe.execute(): the transaction runs on the server in one piece
SaveExec(w) ==
    /\ writer[w] # <<>>
    /\ redis' = Pipeline(redis, writer[w][1], now)
    /\ accepted' = Append(accepted, writer[w][1])
    /\ writer' = [writer EXCEPT ![w] = <<>>]
    /\ ret' = NoRet
    /\ UNCHANGED <<now, calls, dropped, fetches, last_gate>>

\* A failure in the middle of commands sent one by one: the first has been
\* applied, the others have not.
SaveFailPartial(w) ==
    /\ writer[w] # <<>>
    /\ redis' = [redis EXCEPT !.stream = XAdd(@, Data(writer[w][1]), now)]
    /\ writer' = [writer EXCEPT ![w] = <<>>]
    /\ ret' = NoRet
    /\ UNCHANGED <<now, calls, accepted, dropped, fetches, last_gate>>

\* ... or pipe.execute() raises before EXEC reaches the server (connection
\* lost, a command refused while queued): the server discards the transaction
SaveFail(w) ==
    /\ writer[w] # <<>>
    /\ writer' = [writer EXCEPT ![w] = <<>>]
    /\ ret' = NoRet
    /\ UNCHANGED <<redis, now, calls, accepted, dropped, fetches, last_gate>>

EnableRecording ==
    /\ redis' = enable_recording(redis)
    /\ last_gate' = "enable"
    /\ ret' = NoRet
    /\ UNCHANGED <<now, calls, accepted, dropped, fetches, writer>>

DisableRecording ==
    /\ redis' = disable_recording(redis)
    /\ last_gate' = "disable"
    /\ ret' = NoRet
    /\ UNCHANGED <<now, calls, accepted, dropped, fetches, writer>>

\* clear_data by a single caller: KEYS perf:* names every key of the store, the
\* gate's key and the cache entries among them, and DEL removes them all
clear_data(db) == EmptyDb

ClearData ==
    /\ redis # EmptyDb
    /\ redis' = clear_data(redis)
    /\ accepted' = <<>>
    /\ last_gate' = IF last_gate = "none" THEN "none" ELSE "cleared"
    /\ ret' = NoRet
    /\ UNCHANGED <<now, calls, dropped, fetches, writer>>

\* fetch(query)
Fetch(q) ==
    /\ fetches < MaxFetches
    /\ fetches' = fetches + 1
    /\ LET cache_key == get_cache_key("fetch", q)
           cached_records == get_cached_records(redis, cache_key, now)
           records == FetchFresh(redis, q)
       IN IF ~IsNone(cached_records)
          THEN /\ ret' = [op |-> "fetch", q |-> q, hit |-> TRUE,
                          value |-> Val(cached_records)]
               /\ UNCHANGED redis
          ELSE IF FetchRaises(redis, q)
          THEN /\ ret' = [op |-> "raise", q |-> q, hit |-> FALSE, value |-> <<>>]
               /\ UNCHANGED redis
          ELSE /\ redis' = cache_result(redis, cache_key, DumpList(records), now)
               /\ ret' = [op |-> "fetch", q |-> q, hit |-> FALSE, value |-> records]
    /\ UNCHANGED <<now, calls, accepted, dropped, last_gate, writer>>

\* The clock advances; Redis drops the cache entries whose time has come.
Expire(db, t) ==
    [db EXCEPT !.cache = [k \in {x \in DOMAIN @ : @[x].expires > t} |-> @[k]]]

Tick ==
    /\ now < MaxTime
    /\ now' = now + 1
    /\ redis' = Expire(redis, now + 1)
    /\ ret' = NoRet
    /\ UNCHANGED <<calls, accepted, dropped, fetches, last_gate, writer>>

\* One caller at a time: writes, the gate and clear_data.
Next ==
    \/ \E t \in Templates : Save(t, MaxSaves)
    \/ EnableRecording
    \/ DisableRecording
    \/ ClearData

Spec == Init /\ [][Next]_vars

\* One caller at a time, reads included, while time passes.
NextFetch ==
    \/ \E t \in FetchTemplates : Save(t, MaxSavesFetch)
    \/ EnableRecording
    \/ DisableRecording
    \/ ClearData
    \/ \E q \in Queries : Fetch(q)
    \/ Tick

SpecFetch == Init /\ [][NextFetch]_vars

\* Several callers of save at once, and the gate's two switches.
NextConc ==
    \/ \E w \in Writers, t \in Templates : SaveBegin(w, t)
    \/ \E w \in Writers : SaveExec(w)
    \/ \E w \in Writers : SaveFail(w)
    \/ EnableRecording
    \/ DisableRecording

SpecConc == Init /\ [][NextConc]_vars

\* The queries of a caller who uses every method of the query builder.
TagZ == <<"z">>
SortFields == {"duration", "status_code", "timestamp", "nope"}
Directions == {"asc", "desc", "sideways"}
BuiltQueries ==
    {QAll, for_tag(TagZ), limit(QAll, Some(0)), limit(QAll, Some(1)),
     filter_by_status_code(for_route(RouteA), 500),
     limit(filter_by_status_code(for_route(RouteA), 500), Some(1)),
     filter_by_tag(for_route(RouteA), TagY),
     filter_by_route(for_tag(TagX), RouteB),
     limit(order_by(QAll, "duration", "asc"), Some(1)),
     for_date_range(QAll, Some(Ts(2, 0)), None),
     for_date_range(QAll, None, Some(Ts(1, 0))),
     for_date_range(QAll, Some(Ts(1, 0)), Some(Ts(2, 0)))}
    \cup {order_by(QAll, f, d) : f \in SortFields, d \in Directions}

\* fetch by a caller who reads at most MaxQueryFetches times
FetchBuilt(q) ==
    /\ fetches < MaxQueryFetches
    /\ Fetch(q)

\* One caller at a time: writes, and reads with every kind of query.
NextQuery ==
    \/ \E t \in Templates : Save(t, MaxSavesQuery)
    \/ \E q \in BuiltQueries : FetchBuilt(q)
    \/ Tick

SpecQuery == Init /\ [][NextQuery]_vars

\* The queries of a caller who sorts by each field the dashboard offers.
SortableFields == {"timestamp", "route", "method", "status_code", "duration"}
SortedQueries ==
    {order_by(QAll, f, d) : f \in SortableFields, d \in {"asc", "desc"}}
    \cup {order_by(filter_by_status_code(for_route(RouteA), 200), "duration", d) :
             d \in {"asc", "desc"}}

\* One caller at a time: writes, and reads in every order.
NextSort ==
    \/ \E t \in Templates : Save(t, MaxSavesSort)
    \/ \E q \in SortedQueries : FetchBuilt(q)

SpecSort == Init /\ [][NextSort]_vars

\* Query specs that differ from one another in one field or in two, some of
\* them with the separator of the key string inside a string of their own.
BarY == <<"|">> \o TagY
XBar == TagX \o <<"|">>
KeyedQueries ==
    {QAll, for_tag(TagX), for_route(RouteA),
     QueryBuilder(Some(TagX), Some(BarY)), QueryBuilder(Some(XBar), Some(TagY)),
     for_date_range(for_route(RouteA), Some(Ts(1, 0)), None),
     for_date_range(QAll, Some(Ts(1, 0)), None),
     for_date_range(QAll, None, Some(Ts(1, 0))),
     order_by(QAll, "duration", "desc"), order_by(QAll, "duration", "asc"),
     order_by(QAll, "route", "desc"),
     limit(QAll, Some(0)), limit(QAll, Some(1)), limit(QAll, Some(2)),
     filter_by_route(for_tag(TagX), RouteA), filter_by_tag(for_route(RouteA), TagX),
     filter_by_status_code(for_route(RouteA), 200),
     filter_by_status_code(for_route(RouteA), 500)}

\* _get_cache_key("fetch", q1) and _get_cache_key("fetch", q2), side by side
GetCacheKeys(q1, q2) ==
    /\ ret' = [op |-> "get_cache_key", q |-> q1, hit |-> FALSE, value |-> <<q2>>]
    /\ UNCHANGED <<redis, now, calls, accepted, dropped, fetches, last_gate, writer>>

NextKey == \E q1, q2 \in KeyedQueries : GetCacheKeys(q1, q2)

SpecKey == Init /\ [][NextKey]_vars

\* A cached value that _get_cached_records cannot turn back into the records
\* it was made from: text that is not JSON, or a list with an item whose
\* timestamp does not parse.
Damaged(db, key, t) ==
    /\ ~IsNone(CacheGet(db, key, t))
    /\ LET v == Val(CacheGet(db, key, t))
       IN \/ ~json_ok(v)
          \/ \E i \in 1..Len(json_loads(v)) : ~from_dict_ok(json_loads(v)[i])

\* Something other than this code writes into a cache key: the text is cut
\* short (no JSON any more), or one item's timestamp is no ISO string.
Damage(key, kind) ==
    /\ key \in DOMAIN redis.cache
    /\ ~Damaged(redis, key, now)
    /\ LET v == redis.cache[key].value
       IN IF kind = "text"
          THEN redis' = [redis EXCEPT !.cache[key].value = <<"text", v[2]>>]
          ELSE /\ json_loads(v) # <<>>
               /\ redis' = [redis EXCEPT !.cache[key].value =
                               json_dumps([json_loads(v) EXCEPT
                                   ![1].timestamp = <<"text", @[2]>>])]
    /\ ret' = NoRet
    /\ UNCHANGED <<now, calls, accepted, dropped, fetches, last_gate, writer>>

\* One caller at a time, and a cache that is written to from outside.
NextDamage ==
    \/ \E t \in FetchTemplates : Save(t, MaxSavesFetch)
    \/ \E q \in Queries : Fetch(q)
    \/ \E q \in Queries, kind \in {"text", "item"} :
          Damage(get_cache_key("fetch", q), kind)

SpecDamage == Init /\ [][NextDamage]_vars

\* ------------------------------------------------- pre-aggregated statistics
\* A quotient n/d of the code's float arithmetic, kept exact.
Frac(n, d) == <<n, d>>
FracEq(a, b) == a[1] * b[2] = b[1] * a[2]
FracLeq(a, b) == a[1] * b[2] <= b[1] * a[2]

\* round(n / d, 2): the nearest hundredth, a tie going to the even one
round2(n, d) ==
    LET q == (n * 100) \div d
        rem == (n * 100) % d
    IN Frac(IF 2 * rem > d THEN q + 1
            ELSE IF 2 * rem < d THEN q
            ELSE IF q % 2 = 0 THEN q ELSE q + 1,
            100)

\* sorted(self.redis.smembers(key)), for a set of strings
RECURSIVE SortedStrings(_)
SortedStrings(S) ==
    IF S = {} THEN <<>>
    ELSE LET m == CHOOSE x \in S : \A y \in S \ {x} : StrLess(x, y)
         IN <<m>> \o SortedStrings(S \ {m})

get_all_tags(db) == SortedStrings(db.tags)
get_all_routes(db) == SortedStrings(db.routes)

\* stats_data.get(field, 0)
GetOr0(h, f) == IF f \in DOMAIN h THEN h[f] ELSE 0

\* lines 361-381: the RouteStats built from one route's counter row
RouteStatsOfRow(route, stats_data) ==
    LET count == GetOr0(stats_data, "count")
        total_duration == GetOr0(stats_data, "total_duration")
        error_count == GetOr0(stats_data, "error_count")
    IN [route |-> route,
        count |-> count,
        avg |-> IF count > 0 THEN Frac(total_duration, count) ELSE Frac(0, 1),
        p95 |-> 0,
        p99 |-> 0,
        error_count |-> error_count,
        error_rate |-> IF count > 0 THEN round2(error_count * 100, count)
                       ELSE Frac(0, 1),
        min_duration |-> GetOr0(stats_data, "min_duration"),
        max_duration |-> GetOr0(stats_data, "max_duration")]

\* _get_aggregated_route_stats: one entry per indexed route whose row exists,
\* in the order of get_all_routes
RECURSIVE RouteStatsOfRoutes(_, _)
RouteStatsOfRoutes(db, all_routes) ==
    IF all_routes = <<>> THEN <<>>
    ELSE LET route == Head(all_routes)
             stats_data == HGetAll(db.stats_route, route)
         IN (IF stats_data # EmptyHash
             THEN <<RouteStatsOfRow(route, stats_data)>> ELSE <<>>)
            \o RouteStatsOfRoutes(db, Tail(all_routes))

get_aggregated_route_stats(db) == RouteStatsOfRoutes(db, get_all_routes(db))

\* =================================================================== claims
\* The accepted records the main log still holds: the newest ones, as many as
\* the log has entries.
Retained ==
    LET n == StreamLen(redis.stream)
        first == IF Len(accepted) > n THEN Len(accepted) - n + 1 ELSE 1
    IN SubSeq(accepted, first, Len(accepted))

FetchedAll == ret.op = "fetch" /\ ret.q = QAll

\* C1 (as stated): every accepted record that the retention cap has not evicted
\* is, equal in every field, in the list any later fetch(All) returns.
C1_RoundTrip ==
    FetchedAll => \A i \in 1..Len(Retained) : Retained[i] \in Range(ret.value)

\* C1 (amended): the same for every fetch(All) that is computed from the log,
\* that is, not answered from an unexpired cache entry.
C1_RoundTripOnMiss ==
    (FetchedAll /\ ~ret.hit) =>
        \A i \in 1..Len(Retained) : Retained[i] \in Range(ret.value)

\* A fetch(All) computed from the log after the cap has evicted a record.
C1_Witness ==
    /\ FetchedAll /\ ~ret.hit
    /\ Len(accepted) > StreamLen(redis.stream)
    /\ Len(ret.value) >= 1

\* C2: no record handed to save at a closed gate is in a later fetch result; and
\* after a dropped save and one accepted save the first fetch(All) returns just
\* the accepted record.
C2_GateIdempotence ==
    /\ ret.op = "fetch" =>
           \A j \in 1..Len(ret.value) : ret.value[j].request_id \notin dropped
    /\ (FetchedAll /\ fetches = 1 /\ calls = 2 /\ dropped = {1} /\ Len(accepted) = 1)
           => ret.value = <<accepted[1]>>

\* disable, save, enable, save, fetch(All)
C2_Witness ==
    /\ FetchedAll /\ fetches = 1 /\ calls = 2 /\ dropped = {1} /\ Len(accepted) = 1
    /\ is_recording_enabled(redis)

\* The log, the scoped logs, the indices and every counter of a database.
DataOf(db) ==
    <<db.stream, db.tag_stream, db.route_stream, db.tags, db.routes,
      db.stats_global, db.stats_route, db.stats_tag, db.stats_route_tag,
      db.hourly_counts, db.status_code_counts>>

\* C3: a save called while is_recording_enabled() is false changes neither the
\* main log, nor a scoped log, nor an index, nor any counter.
C3_DisabledSaveIsNoOp ==
    [][(calls' = calls + 1 /\ ~is_recording_enabled(redis)) =>
          /\ redis'.stream = redis.stream
          /\ redis'.tag_stream = redis.tag_stream
          /\ redis'.route_stream = redis.route_stream
          /\ redis'.tags = redis.tags
          /\ redis'.routes = redis.routes
          /\ redis'.stats_global = redis.stats_global
          /\ redis'.stats_route = redis.stats_route
          /\ redis'.stats_tag = redis.stats_tag
          /\ redis'.stats_route_tag = redis.stats_route_tag
          /\ redis'.hourly_counts = redis.hourly_counts
          /\ redis'.status_code_counts = redis.status_code_counts]_vars

\* A save has returned at the closed gate of a store that holds records.
C3_Witness ==
    /\ dropped # {}
    /\ accepted # <<>>
    /\ ~is_recording_enabled(redis)

AllRoutes == {t.route : t \in Templates}
AcceptedOn(route) == SelectSeq(accepted, LAMBDA r : r.route = route)
DurationsOn(route) ==
    [i \in 1..Len(AcceptedOn(route)) |-> AcceptedOn(route)[i].duration]
ErrorsOn(route) == Len(SelectSeq(AcceptedOn(route), LAMBDA r : r.status_code >= 400))

\* The entries get_routes_stats(All) reports for one route.
RowsFor(route) ==
    SelectSeq(get_aggregated_route_stats(redis), LAMBDA e : e.route = route)

\* C5: after N accepted saves on a route, in whatever order, get_routes_stats(All)
\* has one entry for the route with count N, avg sum/N, and the least and the
\* greatest duration as min_duration and max_duration.
C5_AggregateConsistency ==
    \A route \in AllRoutes :
        LET d == DurationsOn(route)
            rows == RowsFor(route)
        IN IF d = <<>> THEN rows = <<>>
           ELSE /\ Len(rows) = 1
                /\ rows[1].count = Len(d)
                /\ FracEq(rows[1].avg, Frac(SumSeq(d), Len(d)))
                /\ rows[1].min_duration = MinOf(Range(d))
                /\ rows[1].max_duration = MaxOf(Range(d))

\* Three saves on one route whose first duration is neither the least nor the
\* greatest.
C5_Witness ==
    \E route \in AllRoutes :
        LET d == DurationsOn(route)
        IN /\ Len(d) >= 3
           /\ MinOf(Range(d)) < d[1]
           /\ d[1] < MaxOf(Range(d))

\* C6 (as stated): error_count is the number E of accepted records of the route
\* with status >= 400 and error_rate is exactly E/(E+S)*100; 0 <= error_count
\* <= count; a row with count 0 reads as error_rate 0.
C6_ErrorRateExact ==
    \A route \in AllRoutes :
        LET n == Len(AcceptedOn(route))
            rows == RowsFor(route)
        IN n > 0 =>
             /\ Len(rows) = 1
             /\ rows[1].error_count = ErrorsOn(route)
             /\ FracEq(rows[1].error_rate, Frac(ErrorsOn(route) * 100, n))

\* C6 (amended): error_rate is E/(E+S)*100 rounded to two decimals: k/100 for an
\* integer k nearest to E/(E+S)*10000.
C6_ErrorRateRounded ==
    /\ \A route \in AllRoutes :
        LET n == Len(AcceptedOn(route))
            e == ErrorsOn(route)
            rows == RowsFor(route)
        IN n > 0 =>
             /\ Len(rows) = 1
             /\ rows[1].error_count = e
             /\ rows[1].count = n
             /\ 0 <= rows[1].error_count /\ rows[1].error_count <= rows[1].count
             /\ rows[1].error_rate[2] = 100
             /\ 2 * rows[1].error_rate[1] * n - 2 * e * 10000 <= n
             /\ 2 * e * 10000 - 2 * rows[1].error_rate[1] * n <= n
    /\ \A route \in DOMAIN redis.stats_route :
        /\ 0 <= GetOr0(redis.stats_route[route], "error_count")
        /\ GetOr0(redis.stats_route[route], "error_count")
              <= GetOr0(redis.stats_route[route], "count")
    /\ RouteStatsOfRow(RouteA, [count |-> 0, total_duration |-> 0,
                                error_count |-> 0]).error_rate = Frac(0, 1)

\* One failing and two succeeding requests on a route: 33.33, not 100/3.
C6_Witness ==
    \E route \in AllRoutes :
        /\ Len(AcceptedOn(route)) = 3
        /\ ErrorsOn(route) = 1
        /\ RowsFor(route)[1].error_rate = Frac(3333, 100)

\* C7: whatever the interleaving of concurrent saves, once none is in flight
\* every route's row has counted each completed save once, has summed their
\* durations, and holds the least and the greatest duration saved.
C7_NoLostUpdate ==
    (\A w \in Writers : writer[w] = <<>>) =>
        \A route \in AllRoutes :
            LET d == DurationsOn(route)
                row == HGetAll(redis.stats_route, route)
            IN /\ GetOr0(row, "count") = Len(d)
               /\ GetOr0(row, "total_duration") = SumSeq(d)
               /\ d # <<>> => /\ HGet(row, "min_duration") = Some(MinOf(Range(d)))
                              /\ HGet(row, "max_duration") = Some(MaxOf(Range(d)))

\* Two saves of one route completed in the reverse of the order they were
\* called in, with unequal durations, and nothing left in flight.
C7_Witness ==
    /\ \A w \in Writers : writer[w] = <<>>
    /\ \E i, j \in 1..Len(accepted) :
          /\ i < j
          /\ accepted[i].request_id > accepted[j].request_id
          /\ accepted[i].route = accepted[j].route
          /\ accepted[i].duration # accepted[j].duration

\* The newest entry of a stream carries the record.
NewestIs(nodes, record) ==
    /\ nodes # <<>>
    /\ Entries(nodes)[StreamLen(nodes)].data = Data(record)

\* Every effect of one save of the record, between the store before and after.
FullyRecorded(db, db2, record) ==
    /\ NewestIs(db2.stream, record)
    /\ NewestIs(XRange(db2.route_stream, record.route), record)
    /\ record.route \in db2.routes
    /\ \A f \in {"count", "total_duration", "error_count"} :
          /\ GetOr0(db2.stats_global, f) - GetOr0(db.stats_global, f)
                = RouteRow(EmptyHash, record)[f]
          /\ GetOr0(HGetAll(db2.stats_route, record.route), f)
                - GetOr0(HGetAll(db.stats_route, record.route), f)
                = RouteRow(EmptyHash, record)[f]
    /\ GetOr0(db2.hourly_counts, hour_bucket(record))
          = GetOr0(db.hourly_counts, hour_bucket(record)) + 1
    /\ GetOr0(db2.status_code_counts, record.status_code)
          = GetOr0(db.status_code_counts, record.status_code) + 1
    /\ \A tag \in Range(record.tags) :
          LET k == route_tag_key(record.route, tag)
              times == Len(SelectSeq(record.tags, LAMBDA x : x = tag))
          IN /\ NewestIs(XRange(db2.tag_stream, tag), record)
             /\ tag \in db2.tags
             /\ GetOr0(HGetAll(db2.stats_tag, tag), "count")
                   = GetOr0(HGetAll(db.stats_tag, tag), "count") + times
             /\ GetOr0(HGetAll(db2.stats_tag, tag), "total_duration")
                   = GetOr0(HGetAll(db.stats_tag, tag), "total_duration")
                        + times * record.duration
             /\ GetOr0(HGetAll(db2.stats_route_tag, k), "count")
                   = GetOr0(HGetAll(db.stats_route_tag, k), "count") + times
             /\ GetOr0(HGetAll(db2.stats_route_tag, k), "total_duration")
                   = GetOr0(HGetAll(db.stats_route_tag, k), "total_duration")
                        + times * record.duration

\* C8: every step leaves the store either without any effect of a save in
\* flight or with all the effects of exactly one: its entry in the main log,
\* in the route's log and in each tag's log, the index members and every
\* counter increment.  A save that fails leaves none.
C8_WriteAtomicity ==
    [][/\ \/ DataOf(redis') = DataOf(redis)
          \/ \E w \in Writers :
                /\ writer[w] # <<>>
                /\ writer'[w] = <<>>
                /\ accepted' = Append(accepted, writer[w][1])
                /\ FullyRecorded(redis, redis', writer[w][1])
       /\ accepted' = accepted => DataOf(redis') = DataOf(redis)]_vars

\* A save has failed (it was let through the gate, is no longer in flight and
\* was not recorded) beside one that was recorded with two tags.
C8_Witness ==
    /\ calls - Cardinality(dropped) - Len(accepted)
          - Cardinality({w \in Writers : writer[w] # <<>>}) > 0
    /\ \E i \in 1..Len(accepted) : Len(accepted[i].tags) = 2

\* C9 (as stated): the main log never holds more than max_stream_length entries.
C9_ExactCap == StreamLen(redis.stream) <= max_stream_length

\* C9 (amended): the cap is approximate.  The main log holds the newest records
\* accepted, never fewer than max_stream_length of them once that many were
\* accepted, and fewer than max_stream_length plus one node of the stream.
C9_ApproximateCap ==
    LET n == StreamLen(redis.stream)
    IN /\ n <= max_stream_length + NodeSize - 1
       /\ n <= Len(accepted)
       /\ n >= (IF Len(accepted) < max_stream_length
                THEN Len(accepted) ELSE max_stream_length)
       /\ \A i \in 1..n : Entries(redis.stream)[i].data = Data(Retained[i])

\* Entries have been evicted and the log is still over max_stream_length.
C9_Witness ==
    /\ Len(accepted) > StreamLen(redis.stream)
    /\ StreamLen(redis.stream) > max_stream_length

\* The counters of the store, as one function.
CounterOf(db, route, f) == GetOr0(HGetAll(db.stats_route, route), f)

\* C10: each route's count is the number of records accepted for the route
\* since the last clear_data, however few of them the log still holds, and a
\* save that evicts entries lowers no counter.
C10_EvictionKeepsAggregates ==
    /\ [](\A route \in AllRoutes :
             CounterOf(redis, route, "count") = Len(AcceptedOn(route)))
    /\ [][StreamLen(redis'.stream) <= StreamLen(redis.stream) /\ redis'.stream # <<>>
            => /\ \A route \in AllRoutes :
                    \A f \in {"count", "total_duration", "error_count"} :
                       CounterOf(redis', route, f) >= CounterOf(redis, route, f)
               /\ \A f \in {"count", "total_duration", "error_count"} :
                    GetOr0(redis'.stats_global, f) >= GetOr0(redis.stats_global, f)]_vars

\* A route whose count exceeds the entries left in its log and in the main log.
C10_Witness ==
    \E route \in AllRoutes :
        /\ CounterOf(redis, route, "count") > StreamLen(XRange(redis.route_stream, route))
        /\ CounterOf(redis, route, "count") > StreamLen(redis.stream)
        /\ Len(accepted) > StreamLen(redis.stream)

\* A list of strings in strictly ascending order: sorted, nothing twice.
StrictlyAscending(l) == \A i \in 1..(Len(l) - 1) : StrLess(l[i], l[i + 1])

\* C11: get_all_routes() and get_all_tags() list, sorted and without duplicates,
\* exactly the routes and the tags of the records accepted since the last
\* clear_data, whatever the log has evicted; a record without tags adds no tag.
C11_IndicesEverSeen ==
    /\ Range(get_all_routes(redis)) = {accepted[i].route : i \in 1..Len(accepted)}
    /\ Range(get_all_tags(redis))
          = UNION {Range(accepted[i].tags) : i \in 1..Len(accepted)}
    /\ StrictlyAscending(get_all_routes(redis))
    /\ StrictlyAscending(get_all_tags(redis))

\* Both routes and both tags are listed, one of the routes has no entry left in
\* the main log, and a record without tags was accepted.
C11_Witness ==
    /\ Len(get_all_routes(redis)) = 2
    /\ Len(get_all_tags(redis)) = 2
    /\ \E route \in redis.routes :
          \A e \in Range(Entries(redis.stream)) : e.data.route # route
    /\ \E i \in 1..Len(accepted) : accepted[i].tags = <<>>

\* A fetch has returned a list it computed from the log.
Computed == ret.op = "fetch" /\ ~ret.hit

\* C12: with a limit L, fetch returns the first L elements (or all, if fewer) of
\* what the same query without the limit returns after the time bounds, the
\* filters and the sort.
C12_LimitAppliedLast ==
    (Computed /\ ~IsNone(ret.q.limit_records)) =>
        ret.value = FirstN(FetchFresh(redis, limit(ret.q, None)),
                           Val(ret.q.limit_records))

\* The records of the scoped log, newest entry first.
ScopedRecords(db, q) == parse_stream_entries(Reverse(Entries(ScopedStream(db, q))))

InBounds(q, r) ==
    /\ IsNone(q.since) \/ Instant(Val(q.since)) <= Instant(r.timestamp)
    /\ IsNone(q.until) \/ Instant(r.timestamp) <= Instant(Val(q.until))

\* A query that sets time bounds and nothing else.
OnlyBounds(q) ==
    /\ ~IsNone(q.since) \/ ~IsNone(q.until)
    /\ q = for_date_range(QueryBuilder(q.tag, q.route), q.since, q.until)

\* C13: fetch with since and/or until returns exactly the records of the scoped
\* log whose timestamp t satisfies since <= t <= until, in whatever order of
\* timestamps the records were saved.
C13_TimeBounds ==
    (Computed /\ OnlyBounds(ret.q)) =>
        Range(ret.value) = {r \in Range(ScopedRecords(redis, ret.q)) : InBounds(ret.q, r)}

\* C14: with no order_by field, fetch returns the records in descending order of
\* their timestamps, in whatever order they were saved.
C14_DefaultOrder ==
    (Computed /\ IsNone(ret.q.order_by_field)) =>
        \A i, j \in 1..Len(ret.value) :
            i < j => Instant(ret.value[i].timestamp) >= Instant(ret.value[j].timestamp)

\* The place of a record in a list that holds it once.
Pos(l, r) == CHOOSE k \in 1..Len(l) : l[k] = r

\* C15: with order_by(field, direction), field one of timestamp, route, method,
\* status_code and duration, fetch returns the filtered records sorted by the
\* field, ascending for asc and descending for desc, and records with equal
\* keys keep the order they had in the scan.
C15_SortedStable ==
    (Computed /\ ~IsNone(ret.q.order_by_field)
              /\ Val(ret.q.order_by_field) \in SortableFields) =>
        LET f == Val(ret.q.order_by_field)
            v == ret.value
            u == Unsorted(redis, ret.q)
        IN /\ Len(v) = Len(u)
           /\ Range(v) = Range(u)
           /\ \A i, j \in 1..Len(v) :
                i < j =>
                  /\ IF ret.q.order_direction = "asc"
                     THEN ~KeyLess(f, v[j], v[i]) ELSE ~KeyLess(f, v[i], v[j])
                  /\ (~KeyLess(f, v[i], v[j]) /\ ~KeyLess(f, v[j], v[i]))
                        => Pos(u, v[i]) < Pos(u, v[j])

\* A descending sort that met two different records with equal keys.
C15_Witness ==
    /\ Computed
    /\ ~IsNone(ret.q.order_by_field)
    /\ ret.q.order_direction = "desc"
    /\ \E i, j \in 1..Len(ret.value) :
          /\ i < j
          /\ ret.value[i].duration # ret.value[j].duration
          /\ ~KeyLess(Val(ret.q.order_by_field), ret.value[i], ret.value[j])
          /\ ~KeyLess(Val(ret.q.order_by_field), ret.value[j], ret.value[i])

\* Nothing in the scoped log matches the query.
NothingMatches(db, q) ==
    ApplyFilters(SelectSeq(ScopedRecords(db, q), LAMBDA r : InBounds(q, r)), q) = <<>>

\* C16: for any query that nothing matches (an unknown tag or route, an empty
\* store, filters that match nothing) fetch returns the empty list and does not
\* raise.
C16_EmptyNotError ==
    (ret.op \in {"fetch", "raise"} /\ ~ret.hit /\ NothingMatches(redis, ret.q)) =>
        (ret.op = "fetch" /\ ret.value = <<>>)

\* C17: on a store that is not empty, fetch with an order_by field that is no
\* field of a record, or with a direction other than asc and desc, returns a
\* result and does not raise.
C17_InvalidParameters ==
    /\ \A f \in SortFields, d \in Directions :
          order_by(QAll, f, d).order_direction \in {"asc", "desc"}
    /\ (/\ ret.op \in {"fetch", "raise"}
        /\ redis.stream # <<>>
        /\ ~IsNone(ret.q.order_by_field)
        /\ IsNone(ret.q.limit_records)) => ret.op = "fetch"

\* C18: for one operation name, two query specs that differ in a field have
\* different cache keys, whatever their strings hold, and two equal specs have
\* the same key.
C18_KeyInjective ==
    ret.op = "get_cache_key" =>
        (get_cache_key("fetch", ret.q) = get_cache_key("fetch", ret.value[1])
            <=> ret.q = ret.value[1])

\* C19: when the cached value of a query cannot be fully turned back into
\* records, fetch behaves as on a miss: it returns what it computes from the
\* log, not an error and not a list taken from the damaged value.
C19_DamagedCacheIsMiss ==
    [][\A q \in Queries :
         (/\ fetches' = fetches + 1
          /\ ret'.q = q
          /\ Damaged(redis, get_cache_key("fetch", q), now))
         => (ret'.op = "fetch" /\ ~ret'.hit /\ ret'.value = FetchFresh(redis, q))]_vars

fetch(db, q, t) ==
    LET cache_key == get_cache_key("fetch", q)
        cached_records == get_cached_records(db, cache_key, t)
        records == FetchFresh(db, q)
    IN IF ~IsNone(cached_records)
       THEN [db |-> db, raised |-> FALSE, value |-> Val(cached_records)]
       ELSE IF FetchRaises(db, q)
       THEN [db |-> db, raised |-> TRUE, value |-> <<>>]
       ELSE [db |-> cache_result(db, cache_key, DumpList(records), t),
             raised |-> FALSE, value |-> records]

\* The pairs (n, p), n <= 100 and p a whole number of 0..100, for which the
\* double p / 100 * n lies just above the whole number p*n/100.
RoundsUp ==
    {<<25, 28>>, <<25, 56>>, <<50, 14>>, <<50, 28>>, <<50, 56>>, <<75, 28>>,
     <<75, 56>>, <<75, 68>>, <<100, 7>>, <<100, 14>>, <<100, 28>>, <<100, 55>>,
     <<100, 56>>}

\* math.ceil(p / 100 * n) in double arithmetic
CeilOfProduct(p, n) ==
    (p * n + 99) \div 100 + (IF <<n, p>> \in RoundsUp THEN 1 ELSE 0)

\* The rank rounded down instead of up.
percentile_floor(sorted_durations, p) ==
    IF sorted_durations = <<>> THEN 0
    ELSE LET n == Len(sorted_durations)
             idx == MinOf({n - 1, (p * n) \div 100})
         IN sorted_durations[idx + 1]

\* _percentile(sorted_durations, p)
percentile(sorted_durations, p) ==
    IF sorted_durations = <<>> THEN 0
    ELSE LET idx == MaxOf({0, CeilOfProduct(p, Len(sorted_durations)) - 1})
         IN sorted_durations[idx + 1]

\* sorted(durations)
RECURSIVE SortedNumbers(_)
SortedNumbers(durations) ==
    IF durations = <<>> THEN <<>>
    ELSE LET last == durations[Len(durations)]
             front == SortedNumbers(SubSeq(durations, 1, Len(durations) - 1))
         IN SelectSeq(front, LAMBDA d : d <= last) \o <<last>>
            \o SelectSeq(front, LAMBDA d : d > last)

\* The keys of a dict in the order of their first insertion.
RECURSIVE FirstOccurrences(_)
FirstOccurrences(keys) ==
    IF keys = <<>> THEN <<>>
    ELSE LET front == FirstOccurrences(SubSeq(keys, 1, Len(keys) - 1))
             last == keys[Len(keys)]
         IN IF last \in Range(front) THEN front ELSE Append(front, last)

\* sorted(stats, key=lambda s: s.avg, reverse=True): stable
RECURSIVE InsertByAvg(_, _)
InsertByAvg(sorted, s) ==
    IF sorted = <<>> THEN <<s>>
    ELSE IF ~FracLeq(s.avg, Head(sorted).avg) THEN <<s>> \o sorted
    ELSE <<Head(sorted)>> \o InsertByAvg(Tail(sorted), s)

RECURSIVE SortedByAvg(_)
SortedByAvg(stats) ==
    IF stats = <<>> THEN <<>>
    ELSE InsertByAvg(SortedByAvg(SubSeq(stats, 1, Len(stats) - 1)),
                     stats[Len(stats)])

\* lines 326-343: the TagStats built from one tag's counter row
TagStatsOfRow(tag, stats_data) ==
    LET count == GetOr0(stats_data, "count")
        total_duration == GetOr0(stats_data, "total_duration")
    IN [tag |-> tag,
        count |-> count,
        avg |-> IF count > 0 THEN Frac(total_duration, count) ELSE Frac(0, 1),
        p95 |-> 0,
        p99 |-> 0,
        min_duration |-> GetOr0(stats_data, "min_duration"),
        max_duration |-> GetOr0(stats_data, "max_duration")]

RECURSIVE TagStatsOfTags(_, _)
TagStatsOfTags(db, all_tags) ==
    IF all_tags = <<>> THEN <<>>
    ELSE LET tag == Head(all_tags)
             stats_data == HGetAll(db.stats_tag, tag)
         IN (IF stats_data # EmptyHash
             THEN <<TagStatsOfRow(tag, stats_data)>> ELSE <<>>)
            \o TagStatsOfTags(db, Tail(all_tags))

get_aggregated_tag_stats(db) == TagStatsOfTags(db, get_all_tags(db))

\* lines 385-416: per route, the route-tag counter row of the tag
RECURSIVE RouteStatsOfTag(_, _, _)
RouteStatsOfTag(db, all_routes, tag) ==
    IF all_routes = <<>> THEN <<>>
    ELSE LET route == Head(all_routes)
             stats_data == HGetAll(db.stats_route_tag, route_tag_key(route, tag))
             count == GetOr0(stats_data, "count")
             total_duration == GetOr0(stats_data, "total_duration")
         IN (IF stats_data # EmptyHash /\ "count" \in DOMAIN stats_data
             THEN <<[route |-> route,
                     count |-> count,
                     avg |-> IF count > 0 THEN Frac(total_duration, count)
                             ELSE Frac(0, 1),
                     p95 |-> 0,
                     p99 |-> 0,
                     error_count |-> 0,
                     error_rate |-> Frac(0, 1),
                     min_duration |-> 0,
                     max_duration |-> 0]>>
             ELSE <<>>)
            \o RouteStatsOfTag(db, Tail(all_routes), tag)

get_aggregated_route_stats_for_tag(db, tag) ==
    RouteStatsOfTag(db, get_all_routes(db), tag)

\* lines 418-451: route -> tag -> RouteTagStats, from the route-tag rows
get_aggregated_route_tag_breakdown(db) ==
    LET has(route, tag) ==
            LET stats_data == HGetAll(db.stats_route_tag, route_tag_key(route, tag))
            IN stats_data # EmptyHash /\ "count" \in DOMAIN stats_data
        row(route, tag) == HGetAll(db.stats_route_tag, route_tag_key(route, tag))
    IN [route \in {r \in db.routes : \E tag \in db.tags : has(r, tag)} |->
          [tag \in {x \in db.tags : has(route, x)} |->
             LET count == GetOr0(row(route, tag), "count")
             IN [avg |-> IF count > 0
                         THEN Frac(GetOr0(row(route, tag), "total_duration"), count)
                         ELSE Frac(0, 1),
                 count |-> count]]]

\* lines 454-492
compute_tag_stats_from_records(records) ==
    LET occurrences == Flatten([i \in 1..Len(records) |->
                                  [j \in 1..Len(records[i].tags) |->
                                     [tag |-> records[i].tags[j],
                                      duration |-> records[i].duration]]])
        tags == FirstOccurrences([i \in 1..Len(occurrences) |-> occurrences[i].tag])
        durations(tag) ==
            LET of == SelectSeq(occurrences, LAMBDA o : o.tag = tag)
            IN [i \in 1..Len(of) |-> of[i].duration]
    IN SortedByAvg(
         [i \in 1..Len(tags) |->
            LET d == durations(tags[i])
            IN [tag |-> tags[i],
                count |-> Len(d),
                avg |-> Frac(SumSeq(d), Len(d)),
                p95 |-> percentile(SortedNumbers(d), 95),
                p99 |-> percentile(SortedNumbers(d), 99),
                min_duration |-> MinOf(Range(d)),
                max_duration |-> MaxOf(Range(d) \cup {0})]])

\* lines 494-539
compute_route_stats_from_records(records) ==
    LET routes == FirstOccurrences([i \in 1..Len(records) |-> records[i].route])
        of(route) == SelectSeq(records, LAMBDA r : r.route = route)
    IN SortedByAvg(
         [i \in 1..Len(routes) |->
            LET rs == of(routes[i])
                d == [j \in 1..Len(rs) |-> rs[j].duration]
                errors == SumSeq([j \in 1..Len(rs) |-> is_error(rs[j])])
            IN [route |-> routes[i],
                count |-> Len(d),
                avg |-> Frac(SumSeq(d), Len(d)),
                p95 |-> percentile(SortedNumbers(d), 95),
                p99 |-> percentile(SortedNumbers(d), 99),
                error_count |-> errors,
                error_rate |-> Frac(errors * 100, Len(d)),
                min_duration |-> MinOf(Range(d)),
                max_duration |-> MaxOf(Range(d) \cup {0})]])

\* lines 541-560
compute_route_tag_breakdown_from_records(records) ==
    LET tagged(route, tag) ==
            Flatten([i \in 1..Len(records) |->
                       IF records[i].route = route
                       THEN SelectSeq([j \in 1..Len(records[i].tags) |->
                                         IF records[i].tags[j] = tag
                                         THEN records[i].duration ELSE -1],
                                      LAMBDA d : d >= 0)
                       ELSE <<>>])
        routes == {r.route : r \in {x \in Range(records) : x.tags # <<>>}}
    IN [route \in routes |->
          [tag \in UNION {Range(r.tags) : r \in {x \in Range(records) :
                                                   x.route = route}} |->
             [avg |-> Frac(SumSeq(tagged(route, tag)), Len(tagged(route, tag))),
              count |-> Len(tagged(route, tag))]]]

\* The outcome of an operation that returns without raising.
Returned(db, value) == [db |-> db, raised |-> FALSE, value |-> value]
Raised(db) == [db |-> db, raised |-> TRUE, value |-> <<>>]

\* lines 239-244
get_tags_stats(db, q, t) ==
    IF ~IsNone(q.since) \/ ~IsNone(q.until)
    THEN LET records == fetch(db, q, t)
         IN IF records.raised THEN records
            ELSE Returned(records.db, compute_tag_stats_from_records(records.value))
    ELSE Returned(db, get_aggregated_tag_stats(db))

\* lines 246-257
get_routes_stats(db, q, t) ==
    IF TruthyStr(q.tag) /\ IsNone(q.since) /\ IsNone(q.until)
    THEN Returned(db, get_aggregated_route_stats_for_tag(db, Val(q.tag)))
    ELSE IF ~IsNone(q.since) \/ ~IsNone(q.until) \/ TruthyStr(q.tag)
            \/ TruthyStr(q.route)
    THEN LET records == fetch(db, q, t)
         IN IF records.raised THEN records
            ELSE Returned(records.db, compute_route_stats_from_records(records.value))
    ELSE Returned(db, get_aggregated_route_stats(db))

\* The attributes an instance of RedisBackend has that a call can name.
RedisBackendMethods ==
    {"enable_recording", "disable_recording", "is_recording_enabled", "save",
     "get_all_tags", "get_all_routes", "get_data_time_range", "fetch",
     "get_tags_stats", "get_routes_stats", "weighted_avg", "route_tag_breakdown",
     "request_trend", "status_code_stats", "clear_data", "_update_min_max",
     "_get_aggregated_tag_stats", "_get_aggregated_route_stats",
     "_get_aggregated_route_stats_for_tag", "_get_aggregated_route_tag_breakdown",
     "_compute_tag_stats_from_records", "_compute_route_stats_from_records",
     "_compute_route_tag_breakdown_from_records", "_get_cache_key",
     "_get_cached_records", "_cache_result", "_datetime_to_stream_id",
     "_parse_stream_entries", "redis", "ttl", "max_stream_length",
     "cache_ttl_seconds", "update_min_max_script"}

\* sum(r.avg * r.count for r in route_stats)
RECURSIVE WeightedSum(_)
WeightedSum(route_stats) ==
    IF route_stats = <<>> THEN Frac(0, 1)
    ELSE LET r == Head(route_stats)
             rest == WeightedSum(Tail(route_stats))
         IN Frac(r.avg[1] * r.count * rest[2] + rest[1] * r.avg[2],
                 r.avg[2] * rest[2])

\* lines 259-268: self.route_stats(query) is looked up first
weighted_avg(db, q, t) ==
    IF "route_stats" \notin RedisBackendMethods THEN Raised(db)
    ELSE LET route_stats == get_routes_stats(db, q, t)
             total_count == SumSeq([i \in 1..Len(route_stats.value) |->
                                      route_stats.value[i].count])
             total == WeightedSum(route_stats.value)
         IN IF route_stats.raised THEN route_stats
            ELSE Returned(route_stats.db,
                          <<total_count,
                            IF total_count # 0
                            THEN Frac(total[1], total[2] * total_count)
                            ELSE Frac(0, 1)>>)

\* lines 270-278
route_tag_breakdown(db, q, t) ==
    IF ~IsNone(q.since) \/ ~IsNone(q.until)
    THEN LET records == fetch(db, q, t)
         IN IF records.raised THEN records
            ELSE Returned(records.db,
                          compute_route_tag_breakdown_from_records(records.value))
    ELSE Returned(db, get_aggregated_route_tag_breakdown(db))

\* A set of numbers in ascending order.
RECURSIVE Ascending(_)
Ascending(S) ==
    IF S = {} THEN <<>>
    ELSE <<MinOf(S)>> \o Ascending(S \ {MinOf(S)})

\* lines 280-284: the hourly counts by ascending bucket key
request_trend(db) ==
    LET keys == Ascending(DOMAIN db.hourly_counts)
    IN [i \in 1..Len(keys) |-> <<keys[i], db.hourly_counts[keys[i]]>>]

\* The groups with their upper ends included.
group_of_inclusive(code) ==
    IF 200 <= code /\ code <= 300 THEN "2xx"
    ELSE IF 300 <= code /\ code <= 400 THEN "3xx"
    ELSE IF 400 <= code /\ code <= 500 THEN "4xx"
    ELSE IF 500 <= code /\ code <= 600 THEN "5xx"
    ELSE "other"

\* lines 290-299
group_of(code) ==
    IF 200 <= code /\ code < 300 THEN "2xx"
    ELSE IF 300 <= code /\ code < 400 THEN "3xx"
    ELSE IF 400 <= code /\ code < 500 THEN "4xx"
    ELSE IF 500 <= code /\ code < 600 THEN "5xx"
    ELSE "other"

\* lines 301-311
status_code_stats(db) ==
    LET codes == Ascending(DOMAIN db.status_code_counts)
    IN [i \in 1..Len(codes) |->
          [status_code |-> codes[i],
           count |-> db.status_code_counts[codes[i]],
           group |-> group_of(codes[i])]]

\* --------------------------------------------------------------------- C21
\* What a caller finds in store db at time t when it is empty: every fetch
\* returns [], the two indices are empty and every statistics operation
\* returns its empty result, none of them raising.
ReadsEmpty(db, t) ==
    /\ get_all_routes(db) = <<>>
    /\ get_all_tags(db) = <<>>
    /\ request_trend(db) = <<>>
    /\ status_code_stats(db) = <<>>
    /\ \A q \in BuiltQueries :
         /\ fetch(db, q, t) = Returned(fetch(db, q, t).db, <<>>)
         /\ get_tags_stats(db, q, t) = Returned(get_tags_stats(db, q, t).db, <<>>)
         /\ get_routes_stats(db, q, t)
              = Returned(get_routes_stats(db, q, t).db, <<>>)
         /\ route_tag_breakdown(db, q, t)
              = Returned(route_tag_breakdown(db, q, t).db, <<>>)
         /\ weighted_avg(db, q, t)
              = Returned(weighted_avg(db, q, t).db, <<0, Frac(0, 1)>>)

\* C21: clear_data empties the whole store.  After a call of clear_data, fetch
\* returns an empty list for every query, cached before or not, get_all_routes
\* and get_all_tags are empty and every statistics operation returns an empty
\* result; a second call changes nothing, and a call on the empty store changes
\* nothing either.
C21_ClearEmptiesStore ==
    [][ClearData => /\ ReadsEmpty(redis', now')
                    /\ clear_data(redis') = redis'
                    /\ clear_data(EmptyDb) = EmptyDb]_vars

\* --------------------------------------------------------------------- C22
MaxLen == 3
MaxDuration == 3

\* list(range(1, 101))
OneToHundred == [i \in 1..100 |-> i]

\* The sorted lists of durations handed to _percentile, and the percentiles.
SortedLists ==
    {l \in UNION {[1..n -> 1..MaxDuration] : n \in 0..MaxLen} :
        \A i \in 1..Len(l) : \A j \in i..Len(l) : l[i] <= l[j]}
    \cup {OneToHundred}
Percents == 0..100

\* _percentile(sorted_durations, p) called on its own, once in a behaviour
Percentile(sorted_durations, p) ==
    /\ ret = NoRet
    /\ ret' = [op |-> "_percentile", q |-> QAll, hit |-> FALSE,
               value |-> <<sorted_durations, p, percentile(sorted_durations, p)>>]
    /\ UNCHANGED <<redis, now, calls, accepted, dropped, fetches, last_gate, writer>>

NextPercentile == \E l \in SortedLists, p \in Percents : Percentile(l, p)

SpecPercentile == Init /\ [][NextPercentile]_vars

MaxSavesStats == 3

\* Measurements with a status code of every group and at both ends of a group,
\* and two that denote one instant with different UTC offsets.
StatTemplates ==
    { [timestamp |-> Ts(2, 0), duration |-> 1, route |-> RouteA, status_code |-> 200,
       method |-> "GET", tags |-> <<>>],
      [timestamp |-> Ts(4, 2), duration |-> 2, route |-> RouteA, status_code |-> 300,
       method |-> "GET", tags |-> <<TagX>>],
      [timestamp |-> Ts(1, 0), duration |-> 3, route |-> RouteB, status_code |-> 404,
       method |-> "POST", tags |-> <<TagY>>],
      [timestamp |-> Ts(3, 0), duration |-> 1, route |-> RouteB, status_code |-> 500,
       method |-> "GET", tags |-> <<TagX, TagY>>],
      [timestamp |-> Ts(0, 0), duration |-> 2, route |-> RouteA, status_code |-> 600,
       method |-> "GET", tags |-> <<>>],
      [timestamp |-> Ts(2, 0), duration |-> 1, route |-> RouteB, status_code |-> 199,
       method |-> "GET", tags |-> <<>>] }

\* One caller at a time: writes of every kind of status code, the gate and
\* clear_data; the statistics are read from the store.
NextStats ==
    \/ \E t \in StatTemplates : Save(t, MaxSavesStats)
    \/ EnableRecording
    \/ DisableRecording
    \/ ClearData

SpecStats == Init /\ [][NextStats]_vars

\* The accepted records with a status code.
AcceptedWithCode(code) == {i \in 1..Len(accepted) : accepted[i].status_code = code}

\* C23: status grouping.  status_code_stats returns one entry per distinct
\* status code saved, its count the number of accepted records with that code,
\* its group '2xx' for 200-299, '3xx' for 300-399, '4xx' for 400-499, '5xx' for
\* 500-599 and 'other' for any other code, the entries in ascending order of
\* the status code.
C23_StatusGrouping ==
    LET stats == status_code_stats(redis)
        codes == {accepted[i].status_code : i \in 1..Len(accepted)}
    IN /\ Len(stats) = Cardinality(codes)
       /\ \A i \in 1..Len(stats) :
            /\ stats[i].status_code \in codes
            /\ stats[i].count = Cardinality(AcceptedWithCode(stats[i].status_code))
            /\ stats[i].group = "2xx" <=> stats[i].status_code \in 200..299
            /\ stats[i].group = "3xx" <=> stats[i].status_code \in 300..399
            /\ stats[i].group = "4xx" <=> stats[i].status_code \in 400..499
            /\ stats[i].group = "5xx" <=> stats[i].status_code \in 500..599
            /\ stats[i].group = "other" <=> stats[i].status_code \notin 200..599
            /\ \A j \in (i + 1)..Len(stats) :
                 stats[i].status_code < stats[j].status_code

\* Codes of the groups '3xx' and 'other' have been saved and a save with the
\* gate closed has been dropped.
C23_Witness ==
    LET stats == status_code_stats(redis)
    IN /\ dropped # {}
       /\ \E i, j \in 1..Len(stats) :
            /\ stats[i].group = "3xx"
            /\ stats[j].group = "other"
            /\ stats[i].count + stats[j].count = 2

\* --------------------------------------------------------------------- C24
\* Queries with a time bound or with a filter beyond their scope.
FilteredQueries ==
    {filter_by_route(for_tag(TagX), RouteB),
     filter_by_status_code(for_tag(TagX), 500),
     filter_by_tag(for_route(RouteA), TagY),
     filter_by_status_code(for_route(RouteA), 200),
     for_date_range(for_tag(TagX), Some(Ts(1, 0)), None),
     for_date_range(QAll, None, Some(Ts(2, 0)))}

\* C24: the decision rule of get_routes_stats.  For a query with a time bound
\* or with a filter beyond its scope the statistics are computed from the
\* filtered records that fetch returns for the query, so every route of the
\* result satisfies the route filter of the query.
C24_DecisionRule ==
    \A q \in FilteredQueries :
        LET stats == get_routes_stats(redis, q, now)
            records == fetch(redis, q, now)
        IN /\ ~stats.raised
           /\ stats.value = compute_route_stats_from_records(records.value)
           /\ \A i \in 1..Len(stats.value) :
                TruthyStr(q.route_filter) => stats.value[i].route = Val(q.route_filter)

\* --------------------------------------------------------------------- C25
MaxSavesMalformed == 3

\* Field maps that another writer may have put into the main log: two fields
\* only, or one field that does not parse.
Text(v) == <<"text", v>>
WellFormedData == Data(PerformanceRecord(0, CHOOSE t \in Templates : t.tags # <<>>))
MalformedData ==
    {[request_id |-> 0, timestamp |-> Text(Ts(0, 0))],
     [WellFormedData EXCEPT !.timestamp = Text(Ts(0, 0))],
     [WellFormedData EXCEPT !.duration = Text(0)],
     [WellFormedData EXCEPT !.status_code = Text(0)],
     [WellFormedData EXCEPT !.tags = Text(<<>>)]}

\* redis.xadd(MAIN_STREAM, data) by a writer other than save
AddMalformed(data) ==
    /\ calls < MaxSavesMalformed
    /\ calls' = calls + 1
    /\ redis' = [redis EXCEPT !.stream = XAdd(@, data, now)]
    /\ ret' = NoRet
    /\ UNCHANGED <<now, accepted, dropped, fetches, last_gate, writer>>

ScanQueries == {QAll, limit(QAll, Some(1))}

\* One caller at a time: saves, entries that do not parse, and reads.
NextMalformed ==
    \/ \E t \in FetchTemplates : Save(t, MaxSavesMalformed)
    \/ \E data \in MalformedData : AddMalformed(data)
    \/ \E q \in ScanQueries : Fetch(q)
    \/ Tick

SpecMalformed == Init /\ [][NextMalformed]_vars

\* The entries XREVRANGE hands to a fetch(q) of the main log.
Scan(q) == XRevRange(redis.stream, None, None, q.limit_records)

\* The entries of a scan that save has written, as the records they were
\* written from.
RECURSIVE SavedOf(_)
SavedOf(entries) ==
    IF entries = <<>> THEN <<>>
    ELSE LET from == {i \in 1..Len(accepted) :
                        accepted[i].request_id = Head(entries).data.request_id}
         IN (IF from = {} THEN <<>> ELSE <<accepted[CHOOSE i \in from : TRUE]>>)
            \o SavedOf(Tail(entries))

\* C25: malformed entries are skipped.  A fetch computed from a log that holds
\* entries which do not parse returns exactly the well-formed entries of its
\* scan, in their order, and does not raise.
C25_MalformedSkipped ==
    (ret.op \in {"fetch", "raise"} /\ ~ret.hit) =>
        /\ ret.op = "fetch"
        /\ ret.value = SavedOf(Scan(ret.q))

\* A fetch of the whole log has scanned a malformed entry before a well-formed
\* one and returned the latter.
C25_Witness ==
    /\ Computed
    /\ ret.q = QAll
    /\ Len(Scan(QAll)) >= 2
    /\ ~ParseOk(Scan(QAll)[1].data)
    /\ ret.value # <<>>

\* --------------------------------------------------------------------- C26
\* A counter row with a positive count has both extrema, and its average lies
\* between them.
ExtremaHold(row) ==
    GetOr0(row, "count") > 0 =>
        /\ "min_duration" \in DOMAIN row
        /\ "max_duration" \in DOMAIN row
        /\ row["min_duration"] * row["count"] <= row["total_duration"]
        /\ row["total_duration"] <= row["max_duration"] * row["count"]

\* The entry read from a row reports the row's extrema around its average.
ExtremaReported(entry) ==
    entry.count > 0 =>
        /\ FracLeq(Frac(entry.min_duration, 1), entry.avg)
        /\ FracLeq(entry.avg, Frac(entry.max_duration, 1))

\* C26: the extremum invariant.  In every reachable state every per-route and
\* per-tag counter row with count > 0 has min_duration and max_duration
\* defined with min_duration <= total_duration/count <= max_duration, and a
\* row that is absent or has count 0 is read with both as 0.
C26_ExtremumInvariant ==
    /\ \A route \in DOMAIN redis.stats_route : ExtremaHold(redis.stats_route[route])
    /\ \A tag \in DOMAIN redis.stats_tag : ExtremaHold(redis.stats_tag[tag])
    /\ \A i \in 1..Len(get_aggregated_route_stats(redis)) :
         ExtremaReported(get_aggregated_route_stats(redis)[i])
    /\ \A i \in 1..Len(get_aggregated_tag_stats(redis)) :
         ExtremaReported(get_aggregated_tag_stats(redis)[i])
    /\ \A row \in {EmptyHash, HSet(EmptyHash, "count", 0)} :
         /\ RouteStatsOfRow(RouteA, row).min_duration = 0
         /\ RouteStatsOfRow(RouteA, row).max_duration = 0
         /\ TagStatsOfRow(TagX, row).min_duration = 0
         /\ TagStatsOfRow(TagX, row).max_duration = 0

\* A route's row and a tag's row each hold two records of different durations,
\* the average strictly between the extrema.
C26_Witness ==
    /\ \E route \in DOMAIN redis.stats_route :
         LET row == redis.stats_route[route]
         IN /\ row["count"] >= 2
            /\ row["min_duration"] * row["count"] < row["total_duration"]
            /\ row["total_duration"] < row["max_duration"] * row["count"]
    /\ \E tag \in DOMAIN redis.stats_tag :
         LET row == redis.stats_tag[tag]
         IN /\ row["count"] >= 2
            /\ row["min_duration"] * row["count"] < row["total_duration"]
            /\ row["total_duration"] < row["max_duration"] * row["count"]

\* --------------------------------------------------------------------- C27
\* lines 171-195: the timestamps of the first and of the last entry of the main
\* log; indexing the parsed list raises IndexError when that entry does not parse
get_data_time_range(db) ==
    LET first_entries == FirstN(Entries(db.stream), 1)
        last_entries == XRevRange(db.stream, None, None, Some(1))
        first_parsed == parse_stream_entries(first_entries)
        last_parsed == parse_stream_entries(last_entries)
    IN IF \/ first_entries # <<>> /\ first_parsed = <<>>
          \/ last_entries # <<>> /\ last_parsed = <<>>
       THEN Raised(db)
       ELSE Returned(db,
                     <<IF first_entries # <<>> THEN Some(first_parsed[1].timestamp)
                       ELSE None,
                       IF last_entries # <<>> THEN Some(last_parsed[1].timestamp)
                       ELSE None>>)

\* The instants of the records in the main log.
InstantsInLog == {Instant(fromisoformat(e.data.timestamp)) :
                    e \in Range(Entries(redis.stream))}

\* C27: get_data_time_range returns (None, None) when the main log is empty and
\* otherwise the smallest and the largest record timestamp among the entries
\* in the main log, the first not after the second, whatever the order of the
\* timestamps in which the records were saved.
C27_DataTimeRange ==
    LET range == get_data_time_range(redis)
    IN /\ ~range.raised
       /\ Entries(redis.stream) = <<>> => range.value = <<None, None>>
       /\ Entries(redis.stream) # <<>> =>
            /\ Instant(Val(range.value[1])) = MinOf(InstantsInLog)
            /\ Instant(Val(range.value[2])) = MaxOf(InstantsInLog)
            /\ Instant(Val(range.value[1])) <= Instant(Val(range.value[2]))

\* --------------------------------------------------------------------- C28
WeightedQueries == {QAll, for_route(RouteA), for_tag(TagX)}

\* C28: weighted_avg(query) returns the pair of the sum of the per-route counts
\* of get_routes_stats(query) and of the sum of avg*count over the routes
\* divided by that sum, the pair (0, 0) when there are no records, and does
\* not raise.
C28_WeightedAvg ==
    \A q \in WeightedQueries :
        LET result == weighted_avg(redis, q, now)
            route_stats == get_routes_stats(redis, q, now).value
            total_count == SumSeq([i \in 1..Len(route_stats) |-> route_stats[i].count])
            total == WeightedSum(route_stats)
        IN /\ ~result.raised
           /\ result.value[1] = total_count
           /\ total_count = 0 => result.value[2] = Frac(0, 1)
           /\ total_count > 0 =>
                FracEq(result.value[2], Frac(total[1], total[2] * total_count))

\* --------------------------------------------------------------------- C29
\* The sum of the values of a hash, and of one field over the rows of a family.
RECURSIVE HashSum(_)
HashSum(h) ==
    IF DOMAIN h = {} THEN 0
    ELSE LET f == CHOOSE x \in DOMAIN h : TRUE
         IN h[f] + HashSum([x \in DOMAIN h \ {f} |-> h[x]])

FieldSum(rows, field) == HashSum([k \in DOMAIN rows |-> GetOr0(rows[k], field)])

\* C29: the counter totals agree.  In every state reached by saves, gate
\* toggles and clear_data calls that do not overlap a save, the global count
\* equals the sum of the hourly bucket counts, the sum of the status-code
\* counts and the sum of the per-route counts, and the global error_count
\* equals the sum of the per-route error_counts.
C29_CounterTotalsAgree ==
    LET count == GetOr0(redis.stats_global, "count")
    IN /\ count = HashSum(redis.hourly_counts)
       /\ count = HashSum(redis.status_code_counts)
       /\ count = FieldSum(redis.stats_route, "count")
       /\ GetOr0(redis.stats_global, "error_count")
            = FieldSum(redis.stats_route, "error_count")

\* After a dropped save and a clear_data, three records of two routes, two
\* hours and two status codes have been counted, one of them an error.
C29_Witness ==
    /\ dropped # {}
    /\ last_gate = "cleared"
    /\ GetOr0(redis.stats_global, "count") = 3
    /\ GetOr0(redis.stats_global, "error_count") >= 1
    /\ Cardinality(DOMAIN redis.hourly_counts) >= 2
    /\ Cardinality(DOMAIN redis.status_code_counts) >= 2
    /\ Cardinality(DOMAIN redis.stats_route) = 2

\* --------------------------------------------------------------------- C30
\* The hour of a timestamp after normalization to UTC.
UtcHour(ts) == Instant(ts) \div TicksPerHour

\* C30: hourly bucketing is done in UTC.  The bucket that save increments is
\* the hour of the record's timestamp normalized to UTC: every bucket counts
\* the accepted records of its UTC hour, so two records of one instant with
\* different UTC offsets are counted in the same bucket.
C30_HourlyBucketUtc ==
    \A hour \in DOMAIN redis.hourly_counts
                \cup {UtcHour(accepted[i].timestamp) : i \in 1..Len(accepted)} :
        GetOr0(redis.hourly_counts, hour)
          = Cardinality({i \in 1..Len(accepted) :
                           UtcHour(accepted[i].timestamp) = hour})

\* --------------------------------------------------------------------- C31
\* The records of a list as a set, and how often a record is in a list.
Occurrences(records, r) == Cardinality({i \in 1..Len(records) : records[i] = r})
SameMultiset(a, b) ==
    \A r \in Range(a) \cup Range(b) : Occurrences(a, r) = Occurrences(b, r)

\* C31: scope/filter symmetry.  For every tag t and route r, with no limit and
\* no time bound, a fetch of the tag's scope filtered by the route and a fetch
\* of the route's scope filtered by the tag, both computed from the logs,
\* return the same multiset of records: the retained records whose route is r
\* and whose tags contain t, also after saves that evict entries.
C31_ScopeFilterSymmetry ==
    \A t \in {TagX, TagY} : \A r \in {RouteA, RouteB} :
        LET by_tag == FetchFresh(redis, filter_by_route(for_tag(t), r))
            by_route == FetchFresh(redis, filter_by_tag(for_route(r), t))
        IN /\ SameMultiset(by_tag, by_route)
           /\ SameMultiset(by_tag,
                           SelectSeq(Retained,
                                     LAMBDA x : x.route = r /\ t \in Range(x.tags)))

\* --------------------------------------------------------------------- C32
\* C32: the gate under concurrency.  From the return of disable_recording
\* until the next call of enable_recording, the log, the scoped logs, the
\* indices and the counters do not change, even when a save that began before
\* the disable is still in flight.
C32_GateUnderConcurrency ==
    [][(last_gate = "disable" /\ last_gate' = "disable") =>
          DataOf(redis') = DataOf(redis)]_vars

\* --------------------------------------------------------------------- C33
\* C33: clear_data leaves the recording gate as it was.  If recording is
\* disabled before clear_data, is_recording_enabled() is false afterwards too
\* (so that a save after the clear is dropped), and if it is enabled it stays
\* enabled.
C33_ClearKeepsGate ==
    [][ClearData => is_recording_enabled(redis') = is_recording_enabled(redis)]_vars

\* --------------------------------------------------------------------- C34
\* The keys of the store: a key is its family alone or its family and the part
\* of the name after the prefix.
SingleKeys ==
    {"recording_enabled", "stream", "tags", "routes", "stats_global",
     "hourly_counts", "status_code_counts"}
KeyFamilies ==
    {"tag_stream", "route_stream", "stats_route", "stats_tag", "stats_route_tag",
     "cache"}

\* self.redis.keys("perf:*"): the keys that exist
keys(db) ==
    {<<f>> : f \in {s \in SingleKeys : db[s] # EmptyDb[s]}}
    \cup UNION {{<<f, k>> : k \in DOMAIN db[f]} : f \in KeyFamilies}

\* A family without the keys deleted from it.
Without(m, f, ks) == [k \in {x \in DOMAIN m : <<f, x>> \notin ks} |-> m[k]]

\* self.redis.delete(*keys): the named keys are removed, no other
delete(db, ks) ==
    [db EXCEPT
       !.recording_enabled = IF <<"recording_enabled">> \in ks THEN None ELSE @,
       !.stream = IF <<"stream">> \in ks THEN <<>> ELSE @,
       !.tags = IF <<"tags">> \in ks THEN {} ELSE @,
       !.routes = IF <<"routes">> \in ks THEN {} ELSE @,
       !.stats_global = IF <<"stats_global">> \in ks THEN EmptyHash ELSE @,
       !.hourly_counts = IF <<"hourly_counts">> \in ks THEN EmptyHash ELSE @,
       !.status_code_counts =
           IF <<"status_code_counts">> \in ks THEN EmptyHash ELSE @,
       !.tag_stream = Without(@, "tag_stream", ks),
       !.route_stream = Without(@, "route_stream", ks),
       !.stats_route = Without(@, "stats_route", ks),
       !.stats_tag = Without(@, "stats_tag", ks),
       !.stats_route_tag = Without(@, "stats_route_tag", ks),
       !.cache = Without(@, "cache", ks)]

\* The caller that saves and the caller that clears.
Saver == 1
Clearer == 2

\* clear_data beside other callers: first KEYS (line 645); the caller holds the
\* names it got, and with them how many records had been accepted by then ...
ClearKeys ==
    /\ writer[Clearer] = <<>>
    /\ keys(redis) # {}
    /\ writer' = [writer EXCEPT ![Clearer] =
                    <<[keys |-> keys(redis), seen |-> Len(accepted)]>>]
    /\ ret' = NoRet
    /\ UNCHANGED <<redis, now, calls, accepted, dropped, fetches, last_gate>>

\* ... then DEL of those names (line 649)
ClearDelete ==
    /\ writer[Clearer] # <<>>
    /\ redis' = delete(redis, writer[Clearer][1].keys)
    /\ writer' = [writer EXCEPT ![Clearer] = <<>>]
    /\ accepted' = <<>>
    /\ last_gate' = IF last_gate = "none" THEN "none" ELSE "cleared"
    /\ ret' = NoRet
    /\ UNCHANGED <<now, calls, dropped, fetches>>

\* One caller saves while another clears.
NextClear ==
    \/ \E t \in Templates : SaveBegin(Saver, t)
    \/ SaveExec(Saver)
    \/ ClearKeys
    \/ ClearDelete

SpecClear == Init /\ [][NextClear]_vars

\* C34: clear_data is atomic with respect to a concurrent save.  When at most
\* one save has been executed while a clear_data was under way, the state the
\* clear leaves is the state of one of the two serial orders: the empty store,
\* or the store holding the complete record of that save and nothing else.
C34_ClearAtomic ==
    [][(ClearDelete /\ Len(accepted) <= writer[Clearer][1].seen + 1) =>
          \/ redis' = EmptyDb
          \/ /\ Len(accepted) = writer[Clearer][1].seen + 1
             /\ redis' = Pipeline(EmptyDb, accepted[Len(accepted)], now)]_vars

\* --------------------------------------------------------------------- C35
\* C35: the scoped logs are sub-logs of the main log.  In every reachable
\* state every record that a fetch of a route's or of a tag's scope returns,
\* computed from the logs and without a limit, is also returned by such a
\* fetch of everything, also after the retention cap has evicted entries.
C35_ScopedAreSubLogs ==
    \A q \in {for_route(RouteA), for_route(RouteB), for_tag(TagX), for_tag(TagY)} :
        Range(FetchFresh(redis, q)) \subseteq Range(FetchFresh(redis, QAll))

\* --------------------------------------------------------------------- C36
MaxSavesRouteTag == 3

\* Routes and tags with and without a ':' (a namespaced view name, a free-form
\* tag), and measurements made of them.
ColonRoute == <<"a", ":", "b">>
PlainRoute == <<"a">>
ColonTag == <<"b", ":", "x">>
RouteTagTemplates ==
    { [timestamp |-> Ts(1, 0), duration |-> 1, route |-> ColonRoute,
       status_code |-> 200, method |-> "GET", tags |-> <<TagX>>],
      [timestamp |-> Ts(2, 0), duration |-> 2, route |-> PlainRoute,
       status_code |-> 200, method |-> "GET", tags |-> <<ColonTag>>],
      [timestamp |-> Ts(2, 0), duration |-> 3, route |-> PlainRoute,
       status_code |-> 500, method |-> "GET", tags |-> <<TagX, TagY>>],
      [timestamp |-> Ts(3, 0), duration |-> 1, route |-> ColonRoute,
       status_code |-> 404, method |-> "POST", tags |-> <<TagY, TagY>>],
      [timestamp |-> Ts(0, 0), duration |-> 2, route |-> RouteB,
       status_code |-> 200, method |-> "GET", tags |-> <<>>] }

\* One caller at a time: writes with such routes and tags, and clear_data.
NextRouteTag ==
    \/ \E t \in RouteTagTemplates : Save(t, MaxSavesRouteTag)
    \/ ClearData

SpecRouteTag == Init /\ [][NextRouteTag]_vars

\* The occurrences of tag t in the accepted records of route r, as the list of
\* the durations of their records.
TagOccurrences(r, t) ==
    Flatten([i \in 1..Len(accepted) |->
               IF accepted[i].route = r
               THEN SelectSeq([j \in 1..Len(accepted[i].tags) |->
                                 IF accepted[i].tags[j] = t
                                 THEN accepted[i].duration ELSE -1],
                              LAMBDA d : d >= 0)
               ELSE <<>>])

\* What the breakdown reports for route r and tag t: a count and a total.
Reported(breakdown, r, t) ==
    IF r \in DOMAIN breakdown /\ t \in DOMAIN breakdown[r]
    THEN [count |-> breakdown[r][t].count,
          total_duration |->
              (breakdown[r][t].avg[1] * breakdown[r][t].count)
                  \div breakdown[r][t].avg[2]]
    ELSE [count |-> 0, total_duration |-> 0]

\* C36: the route-tag counters are keyed injectively.  Saves with different
\* (route, tag) pairs never update the same row, also for routes and tags
\* that contain ':', so that route_tag_breakdown(All)[r][t].count is the number
\* of accepted (record, tag occurrence) pairs with route r and tag t.
C36_RouteTagInjective ==
    LET breakdown == route_tag_breakdown(redis, QAll, now).value
    IN \A r \in redis.routes : \A t \in redis.tags :
         Reported(breakdown, r, t).count = Len(TagOccurrences(r, t))

\* --------------------------------------------------------------------- C37
\* The total duration a TagStats stands for: its average times its count.
TotalOf(stats) == (stats.avg[1] * stats.count) \div stats.avg[2]

\* For every tag of get_tags_stats(all()), the count and the total duration
\* equal the sums over the routes of the breakdown's entries for the tag.
TagTotalsAgree ==
    LET tag_stats == get_tags_stats(redis, QAll, now).value
        breakdown == route_tag_breakdown(redis, QAll, now).value
        routes == get_all_routes(redis)
    IN \A i \in 1..Len(tag_stats) :
         LET t == tag_stats[i].tag
         IN /\ tag_stats[i].count =
                 SumSeq([j \in 1..Len(routes) |->
                           Reported(breakdown, routes[j], t).count])
            /\ TotalOf(tag_stats[i]) =
                 SumSeq([j \in 1..Len(routes) |->
                           Reported(breakdown, routes[j], t).total_duration])

\* C37: in every state reached by saves and clears that do not overlap them,
\* the count get_tags_stats(all()) reports for a tag is the sum over all routes
\* of route_tag_breakdown(all())[r][t].count, and the same for the total
\* duration.
C37_TagTotalsAgree == TagTotalsAgree

\* --------------------------------------------------------------------- C38
\* The query with a time window that covers every record and every entry.
Covering(q) == for_date_range(q, Some(Ts(0, 0)), Some(Ts(MaxTime + 1, 0)))

\* No stream has evicted an entry: the main log holds one entry per accepted
\* record and the stream of every tag one per occurrence of the tag.
NothingEvicted ==
    /\ StreamLen(redis.stream) = Len(accepted)
    /\ \A t \in {TagX, TagY} :
         StreamLen(XRange(redis.tag_stream, t)) =
           SumSeq([i \in 1..Len(accepted) |->
                     Len(SelectSeq(accepted[i].tags, LAMBDA x : x = t))])

\* The statistics of route r in a list of RouteStats, if it has any.
StatsOfRoute(stats, r) == SelectSeq(stats, LAMBDA s : s.route = r)

\* Two lists of RouteStats name the same routes and give each the same count.
SameRouteCounts(a, b) ==
    \A r \in {RouteA, RouteB} :
      /\ Len(StatsOfRoute(a, r)) = Len(StatsOfRoute(b, r))
      /\ Len(StatsOfRoute(a, r)) <= 1
      /\ StatsOfRoute(a, r) # <<>> =>
           StatsOfRoute(a, r)[1].count = StatsOfRoute(b, r)[1].count

\* ... and the same errors and extrema.
SameRouteErrorsAndExtrema(a, b) ==
    \A r \in {RouteA, RouteB} :
      (StatsOfRoute(a, r) # <<>> /\ StatsOfRoute(b, r) # <<>>) =>
        LET x == StatsOfRoute(a, r)[1]
            y == StatsOfRoute(b, r)[1]
        IN /\ x.error_count = y.error_count
           /\ FracEq(x.error_rate, y.error_rate)
           /\ x.min_duration = y.min_duration
           /\ x.max_duration = y.max_duration

\* C38: while no entry has been evicted, get_routes_stats(for_tag(t)) without
\* time bounds, served from the counters, and the same query with a window
\* covering every record, computed from the records, report for each route the
\* same count, error_count, error_rate, min_duration and max_duration.
C38_AggregateMatchesRecords ==
    NothingEvicted =>
      \A t \in {TagX, TagY} :
        LET counters == get_routes_stats(redis, for_tag(t), now)
            records == get_routes_stats(redis, Covering(for_tag(t)), now)
        IN /\ ~counters.raised /\ ~records.raised
           /\ SameRouteCounts(counters.value, records.value)
           /\ SameRouteErrorsAndExtrema(counters.value, records.value)

\* --------------------------------------------------------------------- C39
\* The queries with a scope and no time bound.
ScopedQueries == {for_route(RouteA), for_route(RouteB), for_tag(TagX), for_tag(TagY)}

\* The count a list of TagStats gives tag t: 0 when the tag is not in the list.
CountOfTag(stats, t) ==
    SumSeq([i \in 1..Len(stats) |-> IF stats[i].tag = t THEN stats[i].count ELSE 0])

\* C39: get_tags_stats honours the scope of the query with or without a time
\* bound.  While no entry has been evicted, a for_route(r) or for_tag(t) query
\* without since and until counts only the records of its scope: it gives every
\* tag the count the same query gives it with a window covering every record.
C39_TagStatsHonourScope ==
    NothingEvicted =>
      \A q \in ScopedQueries :
        LET unbounded == get_tags_stats(redis, q, now)
            windowed == get_tags_stats(redis, Covering(q), now)
        IN /\ ~unbounded.raised /\ ~windowed.raised
           /\ \A t \in {TagX, TagY} :
                CountOfTag(unbounded.value, t) = CountOfTag(windowed.value, t)

\* --------------------------------------------------------------------- C40
\* The oldest or the newest entry of the main log does not parse.
EndEntryMalformed ==
    LET entries == Entries(redis.stream)
    IN /\ entries # <<>>
       /\ \/ parse_stream_entries(<<entries[1]>>) = <<>>
          \/ parse_stream_entries(<<entries[Len(entries)]>>) = <<>>

\* C40: get_data_time_range tolerates malformed entries.  When the oldest or
\* the newest entry of the main log fails to parse the call does not raise: it
\* returns (None, None) or instants of entries of the log that do parse.
C40_TimeRangeTolerant ==
    EndEntryMalformed =>
      LET range == get_data_time_range(redis)
          parsed == parse_stream_entries(Entries(redis.stream))
          instants == {Instant(parsed[i].timestamp) : i \in 1..Len(parsed)}
      IN /\ ~range.raised
         /\ \A i \in 1..2 :
              IsNone(range.value[i]) \/ Instant(Val(range.value[i])) \in instants

====
